---- MODULE Spec2Model ----
(***************************************************************************)
(* Cross-document validation engine of the payment-resolution system       *)
(* (src/src/lib/validator.ts): the identifier and amount normalizers, the  *)
(* three business rules and the orchestrator validarResolucion, as a state *)
(* machine that runs one validation call rule by rule.                     *)
(*                                                                         *)
(* JavaScript values are tagged records, [t |-> "string", s |-> chars],    *)
(* [t |-> "number", ...], [t |-> "boolean", b |-> ...], [t |->            *)
(* "undefined"]; a string is a sequence of one-character strings.          *)
(* A finite number is the exact fraction num/den (den a power of ten);     *)
(* floating-point rounding is outside the model.                           *)
(***************************************************************************)
EXTENDS Integers, Sequences, FiniteSets, TLC

(***************************************************************************)
(* Bounds of the model.                                                    *)
(***************************************************************************)
MaxRutLen == 2
MaxMonto == 2

(***************************************************************************)
(* JavaScript values.                                                      *)
(***************************************************************************)
Undefined == [t |-> "undefined"]
Null == [t |-> "null"]
Str(s) == [t |-> "string", s |-> s]
Bool(b) == [t |-> "boolean", b |-> b]
Num(n) == [t |-> "number", nan |-> FALSE, num |-> n, den |-> 1]
NaN == [t |-> "number", nan |-> TRUE, num |-> 0, den |-> 1]

isNaN(n) == n.nan

\* variant: <= where the rules compare with ===
NumLe(a, b) == ~a.nan /\ ~b.nan /\ a.num * b.den <= b.num * a.den

\* a === b on two numbers (NaN is equal to nothing, itself included)
NumEq(a, b) == ~a.nan /\ ~b.nan /\ a.num * b.den = b.num * a.den

\* variant: >= where the rules compare with >
NumGe(a, b) == ~a.nan /\ ~b.nan /\ a.num * b.den >= b.num * a.den

\* a > b on two numbers (false when either is NaN)
NumGt(a, b) == ~a.nan /\ ~b.nan /\ a.num * b.den > b.num * a.den

\* ToBoolean: undefined, null, "", 0, NaN and false are falsy
Truthy(v) ==
    CASE v.t = "undefined" -> FALSE
      [] v.t = "null" -> FALSE
      [] v.t = "string" -> v.s # <<>>
      [] v.t = "number" -> ~v.nan /\ v.num # 0
      [] v.t = "boolean" -> v.b
      [] OTHER -> TRUE

(***************************************************************************)
(* String primitives used by the normalizers.                              *)
(***************************************************************************)
Whitespace == {" ", "\t", "\n"}
Digits == {"0", "1", "2", "3", "4", "5", "6", "7", "8", "9"}

DigitVal(c) ==
    CASE c = "0" -> 0 [] c = "1" -> 1 [] c = "2" -> 2 [] c = "3" -> 3
      [] c = "4" -> 4 [] c = "5" -> 5 [] c = "6" -> 6 [] c = "7" -> 7
      [] c = "8" -> 8 [] c = "9" -> 9

\* s.replace(/c/g, "") for every c of chars
RemoveChars(s, chars) == SelectSeq(s, LAMBDA c : c \notin chars)

\* s.replace(/from/g, to), one character for one character
ReplaceChar(s, from, to) == [i \in 1..Len(s) |-> IF s[i] = from THEN to ELSE s[i]]

LowerOf(c) ==
    CASE c = "K" -> "k" [] c = "A" -> "a" [] c = "B" -> "b" [] OTHER -> c

toLowerCase(s) == [i \in 1..Len(s) |-> LowerOf(s[i])]

RECURSIVE trimStart(_)
trimStart(s) ==
    IF s # <<>> /\ Head(s) \in Whitespace THEN trimStart(Tail(s)) ELSE s

RECURSIVE trimEnd(_)
trimEnd(s) ==
    IF s # <<>> /\ s[Len(s)] \in Whitespace
    THEN trimEnd(SubSeq(s, 1, Len(s) - 1))
    ELSE s

trim(s) == trimEnd(trimStart(s))

RECURSIVE Pow10(_)
Pow10(k) == IF k = 0 THEN 1 ELSE 10 * Pow10(k - 1)

RECURSIVE DigitsValue(_)
DigitsValue(s) ==
    IF s = <<>> THEN 0
    ELSE 10 * DigitsValue(SubSeq(s, 1, Len(s) - 1)) + DigitVal(s[Len(s)])

\* Number(str) for a string of digits, dots and other characters: the empty
\* (or blank) string is 0, an unsigned decimal literal is its value, anything
\* else is NaN. Signs, exponents, radix prefixes and "Infinity" are not in
\* the alphabets of the model.
Number(str) ==
    LET s == trim(str)
        dots == {i \in 1..Len(s) : s[i] = "."}
    IN  IF s = <<>> THEN Num(0)
        ELSE IF \E i \in 1..Len(s) : s[i] \notin Digits \cup {"."} THEN NaN
        ELSE IF Cardinality(dots) > 1 THEN NaN
        ELSE IF Len(s) = Cardinality(dots) THEN NaN
        ELSE IF dots = {} THEN Num(DigitsValue(s))
        ELSE LET p == CHOOSE i \in dots : TRUE
                 frac == SubSeq(s, p + 1, Len(s))
             IN  [t |-> "number", nan |-> FALSE,
                  num |-> DigitsValue(SubSeq(s, 1, p - 1) \o frac),
                  den |-> Pow10(Len(frac))]

(***************************************************************************)
(* Auxiliary functions of validator.ts.  A call that would raise a         *)
(* TypeError returns Throw.                                                *)
(***************************************************************************)
Return(v) == [throws |-> FALSE, value |-> v]
Throw == [throws |-> TRUE, value |-> <<>>]

\* variant: without the guard on a missing value
normalizarRUTSinGuarda(rut) ==
    IF rut.t # "string" THEN Throw
    ELSE Return(trim(toLowerCase(
            RemoveChars(RemoveChars(RemoveChars(rut.s, {"."}), {"-"}), Whitespace))))

\* variant: commas are removed too
normalizarRUTSinComas(rut) ==
    IF ~Truthy(rut) THEN Return(<<>>)
    ELSE IF rut.t # "string" THEN Throw
    ELSE Return(trim(toLowerCase(
            RemoveChars(RemoveChars(RemoveChars(RemoveChars(rut.s, {"."}), {"-"}),
                                    Whitespace), {","}))))

\* variant: the case of the check-digit letter is kept
normalizarRUTSinMinusculas(rut) ==
    IF ~Truthy(rut) THEN Return(<<>>)
    ELSE IF rut.t # "string" THEN Throw
    ELSE Return(trim(
            RemoveChars(RemoveChars(RemoveChars(rut.s, {"."}), {"-"}), Whitespace)))

normalizarRUT(rut) ==
    IF ~Truthy(rut) THEN Return(<<>>)
    ELSE IF rut.t # "string" THEN Throw
    ELSE Return(trim(toLowerCase(
            RemoveChars(RemoveChars(RemoveChars(rut.s, {"."}), {"-"}), Whitespace))))

\* variant: the thousands dots are kept
limpiarMontoSinMiles(valor) ==
    IF valor.t = "number" THEN valor
    ELSE IF valor.t = "string"
    THEN Number(trim(ReplaceChar(
            RemoveChars(RemoveChars(valor.s, {"$"}), Whitespace), ",", ".")))
    ELSE NaN

limpiarMonto(valor) ==
    IF valor.t = "number" THEN valor
    ELSE IF valor.t = "string"
    THEN Number(trim(ReplaceChar(
            RemoveChars(RemoveChars(RemoveChars(valor.s, {"$"}), Whitespace), {"."}),
            ",", ".")))
    ELSE NaN

\* variant: undefined and null are not tested
tieneDatoSinNull(valor) ==
    IF valor.t = "string" THEN Len(trim(valor.s)) > 0
    ELSE IF valor.t = "number" THEN ~isNaN(valor)
    ELSE TRUE

\* variant: the string is not trimmed
tieneDatoSinTrim(valor) ==
    IF valor.t = "null" \/ valor.t = "undefined" THEN FALSE
    ELSE IF valor.t = "string" THEN Len(valor.s) > 0
    ELSE IF valor.t = "number" THEN ~isNaN(valor)
    ELSE TRUE

tieneDato(valor) ==
    IF valor.t = "null" \/ valor.t = "undefined" THEN FALSE
    ELSE IF valor.t = "string" THEN Len(trim(valor.s)) > 0
    ELSE IF valor.t = "number" THEN ~isNaN(valor)
    ELSE TRUE

(***************************************************************************)
(* Discrepancy messages.  A message is its template and the values that    *)
(* the template interpolates, in the order they appear in the text.        *)
(***************************************************************************)
Msg(id, args) == [id |-> id, args |-> args]

MsgFaltaRUT == Msg("Falta el RUT del proveedor en uno o mas documentos.", <<>>)
MsgRutFacturaOC(f, oc) ==
    Msg("El RUT de la Factura (..) no coincide con el de la Orden de Compra (..).", <<f, oc>>)
MsgRutFacturaActa(f, a) ==
    Msg("El RUT de la Factura (..) no coincide con el del Acta de Recepcion (..).", <<f, a>>)
MsgRutOCActa(oc, a) ==
    Msg("El RUT de la Orden de Compra (..) no coincide con el del Acta de Recepcion (..).", <<oc, a>>)
MsgMontoFacturaInvalido == Msg("El monto total de la Factura no es un numero valido.", <<>>)
MsgMontoOCInvalido == Msg("El monto total de la Orden de Compra no es un numero valido.", <<>>)
MsgMontoRecepcionInvalido == Msg("El monto recepcionado del Acta no es un numero valido.", <<>>)
MsgExcedeOC(f, oc) ==
    Msg("El monto de la Factura ($..) excede el monto de la Orden de Compra ($..).", <<f, oc>>)
MsgExcedeRecepcion(f, r) ==
    Msg("El monto de la Factura ($..) excede el monto recepcionado ($..).", <<f, r>>)
MsgNoCoincideRecepcion(f, r) ==
    Msg("El monto de la Factura ($..) no coincide exactamente con el monto recepcionado ($..).", <<f, r>>)
MsgFaltaItem ==
    Msg("Falta la imputacion presupuestaria (Item Presupuestario) en la Orden de Compra.", <<>>)
MsgFaltaNumeroFactura == Msg("Falta el numero de la Factura.", <<>>)
MsgFaltaNumeroOC == Msg("Falta el numero de la Orden de Compra.", <<>>)
MsgFaltaNumeroActa == Msg("Falta el numero del Acta de Recepcion.", <<>>)
MsgNoConforme ==
    Msg("El Acta de Recepcion NO declara conformidad. El servicio o bien no fue recepcionado conforme.", <<>>)
MsgFaltaDescripcion == Msg("Falta la descripcion del servicio o bien en la Factura.", <<>>)
MsgFaltaRazonSocial == Msg("Falta la razon social del proveedor en la Factura.", <<>>)
MsgFaltaFechaEmision == Msg("Falta la fecha de emision de la Factura.", <<>>)
MsgFaltaFechaRecepcion == Msg("Falta la fecha de recepcion en el Acta.", <<>>)

\* variant: unshift instead of push
PushIfAlInicio(discrepancias, cond, m) ==
    IF cond THEN <<m>> \o discrepancias ELSE discrepancias

\* discrepancias.push(m) when cond holds
PushIf(discrepancias, cond, m) == IF cond THEN Append(discrepancias, m) ELSE discrepancias

(***************************************************************************)
(* Business rules.  Each rule returns its value together with the          *)
(* discrepancy list it was handed, as the rule leaves it.                  *)
(***************************************************************************)
\* variant: absent identifiers are compared like the others
validarRUTSinFaltantes(datos, discrepancias) ==
    LET rutFactura == normalizarRUT(datos.factura.rutProveedor)
        rutOC == normalizarRUT(datos.ordenCompra.rutProveedor)
        rutActa == normalizarRUT(datos.actaRecepcion.rutProveedor)
    IN  IF rutFactura.throws \/ rutOC.throws \/ rutActa.throws
        THEN [throws |-> TRUE, ret |-> FALSE, discrepancias |-> discrepancias]
        ELSE LET d1 == PushIf(discrepancias, rutFactura.value # rutOC.value,
                         MsgRutFacturaOC(datos.factura.rutProveedor,
                                         datos.ordenCompra.rutProveedor))
                 d2 == PushIf(d1, rutFactura.value # rutActa.value,
                         MsgRutFacturaActa(datos.factura.rutProveedor,
                                           datos.actaRecepcion.rutProveedor))
                 d3 == PushIf(d2, rutOC.value # rutActa.value,
                         MsgRutOCActa(datos.ordenCompra.rutProveedor,
                                      datos.actaRecepcion.rutProveedor))
             IN  [throws |-> FALSE,
                  ret |-> /\ rutFactura.value = rutOC.value
                          /\ rutFactura.value = rutActa.value
                          /\ rutOC.value = rutActa.value,
                  discrepancias |-> d3]

\* variant: the messages name the normalized identifiers
validarRUTNormalizados(datos, discrepancias) ==
    LET rutFactura == normalizarRUT(datos.factura.rutProveedor)
        rutOC == normalizarRUT(datos.ordenCompra.rutProveedor)
        rutActa == normalizarRUT(datos.actaRecepcion.rutProveedor)
    IN  IF rutFactura.throws \/ rutOC.throws \/ rutActa.throws
        THEN [throws |-> TRUE, ret |-> FALSE, discrepancias |-> discrepancias]
        ELSE IF rutFactura.value = <<>> \/ rutOC.value = <<>> \/ rutActa.value = <<>>
        THEN [throws |-> FALSE, ret |-> FALSE,
              discrepancias |-> Append(discrepancias, MsgFaltaRUT)]
        ELSE LET d1 == PushIf(discrepancias, rutFactura.value # rutOC.value,
                         MsgRutFacturaOC(Str(rutFactura.value), Str(rutOC.value)))
                 d2 == PushIf(d1, rutFactura.value # rutActa.value,
                         MsgRutFacturaActa(Str(rutFactura.value), Str(rutActa.value)))
                 d3 == PushIf(d2, rutOC.value # rutActa.value,
                         MsgRutOCActa(Str(rutOC.value), Str(rutActa.value)))
             IN  [throws |-> FALSE,
                  ret |-> /\ rutFactura.value = rutOC.value
                          /\ rutFactura.value = rutActa.value
                          /\ rutOC.value = rutActa.value,
                  discrepancias |-> d3]

\* variant: the pairs are compared in an else-if chain, up to the first mismatch
validarRUTPrimerDesajuste(datos, discrepancias) ==
    LET rutFactura == normalizarRUT(datos.factura.rutProveedor)
        rutOC == normalizarRUT(datos.ordenCompra.rutProveedor)
        rutActa == normalizarRUT(datos.actaRecepcion.rutProveedor)
    IN  IF rutFactura.throws \/ rutOC.throws \/ rutActa.throws
        THEN [throws |-> TRUE, ret |-> FALSE, discrepancias |-> discrepancias]
        ELSE IF rutFactura.value = <<>> \/ rutOC.value = <<>> \/ rutActa.value = <<>>
        THEN [throws |-> FALSE, ret |-> FALSE,
              discrepancias |-> Append(discrepancias, MsgFaltaRUT)]
        ELSE LET d1 == PushIf(discrepancias, rutFactura.value # rutOC.value,
                         MsgRutFacturaOC(datos.factura.rutProveedor,
                                         datos.ordenCompra.rutProveedor))
                 d2 == PushIf(d1, /\ rutFactura.value = rutOC.value
                                  /\ rutFactura.value # rutActa.value,
                         MsgRutFacturaActa(datos.factura.rutProveedor,
                                           datos.actaRecepcion.rutProveedor))
                 d3 == PushIf(d2, /\ rutFactura.value = rutOC.value
                                  /\ rutFactura.value = rutActa.value
                                  /\ rutOC.value # rutActa.value,
                         MsgRutOCActa(datos.ordenCompra.rutProveedor,
                                      datos.actaRecepcion.rutProveedor))
             IN  [throws |-> FALSE,
                  ret |-> /\ rutFactura.value = rutOC.value
                          /\ rutFactura.value = rutActa.value
                          /\ rutOC.value = rutActa.value,
                  discrepancias |-> d3]

\* variant: the order-receipt pair is not compared
validarRUTSinTercerPar(datos, discrepancias) ==
    LET rutFactura == normalizarRUT(datos.factura.rutProveedor)
        rutOC == normalizarRUT(datos.ordenCompra.rutProveedor)
        rutActa == normalizarRUT(datos.actaRecepcion.rutProveedor)
    IN  IF rutFactura.throws \/ rutOC.throws \/ rutActa.throws
        THEN [throws |-> TRUE, ret |-> FALSE, discrepancias |-> discrepancias]
        ELSE IF rutFactura.value = <<>> \/ rutOC.value = <<>> \/ rutActa.value = <<>>
        THEN [throws |-> FALSE, ret |-> FALSE,
              discrepancias |-> Append(discrepancias, MsgFaltaRUT)]
        ELSE LET d1 == PushIf(discrepancias, rutFactura.value # rutOC.value,
                         MsgRutFacturaOC(datos.factura.rutProveedor,
                                         datos.ordenCompra.rutProveedor))
                 d2 == PushIf(d1, rutFactura.value # rutActa.value,
                         MsgRutFacturaActa(datos.factura.rutProveedor,
                                           datos.actaRecepcion.rutProveedor))
             IN  [throws |-> FALSE,
                  ret |-> /\ rutFactura.value = rutOC.value
                          /\ rutFactura.value = rutActa.value,
                  discrepancias |-> d2]

validarRUT(datos, discrepancias) ==
    LET rutFactura == normalizarRUT(datos.factura.rutProveedor)
        rutOC == normalizarRUT(datos.ordenCompra.rutProveedor)
        rutActa == normalizarRUT(datos.actaRecepcion.rutProveedor)
    IN  IF rutFactura.throws \/ rutOC.throws \/ rutActa.throws
        THEN [throws |-> TRUE, ret |-> FALSE, discrepancias |-> discrepancias]
        ELSE IF rutFactura.value = <<>> \/ rutOC.value = <<>> \/ rutActa.value = <<>>
        THEN [throws |-> FALSE, ret |-> FALSE,
              discrepancias |-> Append(discrepancias, MsgFaltaRUT)]
        ELSE LET d1 == PushIf(discrepancias, rutFactura.value # rutOC.value,
                         MsgRutFacturaOC(datos.factura.rutProveedor,
                                         datos.ordenCompra.rutProveedor))
                 d2 == PushIf(d1, rutFactura.value # rutActa.value,
                         MsgRutFacturaActa(datos.factura.rutProveedor,
                                           datos.actaRecepcion.rutProveedor))
                 d3 == PushIf(d2, rutOC.value # rutActa.value,
                         MsgRutOCActa(datos.ordenCompra.rutProveedor,
                                      datos.actaRecepcion.rutProveedor))
             IN  [throws |-> FALSE,
                  ret |-> /\ rutFactura.value = rutOC.value
                          /\ rutFactura.value = rutActa.value
                          /\ rutOC.value = rutActa.value,
                  discrepancias |-> d3]

\* variant: an invalid receipt total clears the flag without a message
validarMontosRecepcionCallada(datos, discrepancias) ==
    LET montoFactura == limpiarMonto(datos.factura.montoTotal)
        montoOC == limpiarMonto(datos.ordenCompra.montoTotal)
        montoRecepcion == limpiarMonto(datos.actaRecepcion.montoRecepcionado)
        todosValidos == ~isNaN(montoFactura) /\ ~isNaN(montoOC) /\ ~isNaN(montoRecepcion)
        d1 == PushIf(discrepancias, isNaN(montoFactura), MsgMontoFacturaInvalido)
        d2 == PushIf(d1, isNaN(montoOC), MsgMontoOCInvalido)
        d4 == PushIf(d2, todosValidos /\ NumGt(montoFactura, montoOC),
                     MsgExcedeOC(montoFactura, montoOC))
        d5 == PushIf(d4, todosValidos /\ NumGt(montoFactura, montoRecepcion),
                     MsgExcedeRecepcion(montoFactura, montoRecepcion))
        d6 == PushIf(d5, todosValidos /\ ~NumEq(montoFactura, montoRecepcion),
                     MsgNoCoincideRecepcion(montoFactura, montoRecepcion))
    IN  [throws |-> FALSE,
         montosCoinciden |->
             /\ ~isNaN(montoFactura)
             /\ ~isNaN(montoRecepcion)
             /\ ~(todosValidos /\ NumGt(montoFactura, montoRecepcion))
             /\ ~(todosValidos /\ ~NumEq(montoFactura, montoRecepcion)),
         montoOCSuficiente |->
             /\ ~isNaN(montoOC)
             /\ ~(todosValidos /\ NumGt(montoFactura, montoOC)),
         discrepancias |-> d6]

\* variant: rule 2a compares the invoice with the receipt instead of the order
validarMontosContraRecepcion(datos, discrepancias) ==
    LET montoFactura == limpiarMonto(datos.factura.montoTotal)
        montoOC == limpiarMonto(datos.ordenCompra.montoTotal)
        montoRecepcion == limpiarMonto(datos.actaRecepcion.montoRecepcionado)
        todosValidos == ~isNaN(montoFactura) /\ ~isNaN(montoOC) /\ ~isNaN(montoRecepcion)
        d1 == PushIf(discrepancias, isNaN(montoFactura), MsgMontoFacturaInvalido)
        d2 == PushIf(d1, isNaN(montoOC), MsgMontoOCInvalido)
        d3 == PushIf(d2, isNaN(montoRecepcion), MsgMontoRecepcionInvalido)
        d4 == PushIf(d3, todosValidos /\ NumGt(montoFactura, montoRecepcion),
                     MsgExcedeOC(montoFactura, montoOC))
        d5 == PushIf(d4, todosValidos /\ NumGt(montoFactura, montoRecepcion),
                     MsgExcedeRecepcion(montoFactura, montoRecepcion))
        d6 == PushIf(d5, todosValidos /\ ~NumEq(montoFactura, montoRecepcion),
                     MsgNoCoincideRecepcion(montoFactura, montoRecepcion))
    IN  [throws |-> FALSE,
         montosCoinciden |->
             /\ ~isNaN(montoFactura)
             /\ ~isNaN(montoRecepcion)
             /\ ~(todosValidos /\ NumGt(montoFactura, montoRecepcion))
             /\ ~(todosValidos /\ ~NumEq(montoFactura, montoRecepcion)),
         montoOCSuficiente |->
             /\ ~isNaN(montoOC)
             /\ ~(todosValidos /\ NumGt(montoFactura, montoRecepcion)),
         discrepancias |-> d6]

validarMontos(datos, discrepancias) ==
    LET montoFactura == limpiarMonto(datos.factura.montoTotal)
        montoOC == limpiarMonto(datos.ordenCompra.montoTotal)
        montoRecepcion == limpiarMonto(datos.actaRecepcion.montoRecepcionado)
        todosValidos == ~isNaN(montoFactura) /\ ~isNaN(montoOC) /\ ~isNaN(montoRecepcion)
        d1 == PushIf(discrepancias, isNaN(montoFactura), MsgMontoFacturaInvalido)
        d2 == PushIf(d1, isNaN(montoOC), MsgMontoOCInvalido)
        d3 == PushIf(d2, isNaN(montoRecepcion), MsgMontoRecepcionInvalido)
        d4 == PushIf(d3, todosValidos /\ NumGt(montoFactura, montoOC),
                     MsgExcedeOC(montoFactura, montoOC))
        d5 == PushIf(d4, todosValidos /\ NumGt(montoFactura, montoRecepcion),
                     MsgExcedeRecepcion(montoFactura, montoRecepcion))
        d6 == PushIf(d5, todosValidos /\ ~NumEq(montoFactura, montoRecepcion),
                     MsgNoCoincideRecepcion(montoFactura, montoRecepcion))
    IN  [throws |-> FALSE,
         montosCoinciden |->
             /\ ~isNaN(montoFactura)
             /\ ~isNaN(montoRecepcion)
             /\ ~(todosValidos /\ NumGt(montoFactura, montoRecepcion))
             /\ ~(todosValidos /\ ~NumEq(montoFactura, montoRecepcion)),
         montoOCSuficiente |->
             /\ ~isNaN(montoOC)
             /\ ~(todosValidos /\ NumGt(montoFactura, montoOC)),
         discrepancias |-> d6]

\* variant: a truthiness test instead of the strict comparison
NoEsTrueFalsy(v) == ~Truthy(v)

\* datos.actaRecepcion.conforme !== true
NoEsTrue(v) == ~(v.t = "boolean" /\ v.b = TRUE)

\* variant: the invoice description is compared with the order description
validarIntegridadCruzada(datos, discrepancias) ==
    LET d1 == PushIf(discrepancias, ~tieneDato(datos.ordenCompra.itemPresupuestario),
                     MsgFaltaItem)
        d2 == PushIf(d1, ~tieneDato(datos.factura.numeroFactura), MsgFaltaNumeroFactura)
        d3 == PushIf(d2, ~tieneDato(datos.ordenCompra.numeroOC), MsgFaltaNumeroOC)
        d4 == PushIf(d3, ~tieneDato(datos.actaRecepcion.numeroActa), MsgFaltaNumeroActa)
        d5 == PushIf(d4, NoEsTrue(datos.actaRecepcion.conforme), MsgNoConforme)
        d6 == PushIf(d5, ~tieneDato(datos.factura.descripcionServicio), MsgFaltaDescripcion)
        d7 == PushIf(d6, ~tieneDato(datos.factura.razonSocial), MsgFaltaRazonSocial)
        d8 == PushIf(d7, ~tieneDato(datos.factura.fechaEmision), MsgFaltaFechaEmision)
        d9 == PushIf(d8, ~tieneDato(datos.actaRecepcion.fechaRecepcion),
                     MsgFaltaFechaRecepcion)
    IN  [throws |-> FALSE,
         descripcionConsistente |->
             /\ tieneDato(datos.factura.descripcionServicio)
             /\ datos.factura.descripcionServicio = datos.ordenCompra.descripcion,
         recepcionConforme |-> ~NoEsTrue(datos.actaRecepcion.conforme),
         discrepancias |-> d9]

\* variant: the counterparty name is looked at only when the description is there
validarIntegridadEncadenada(datos, discrepancias) ==
    LET d1 == PushIf(discrepancias, ~tieneDato(datos.ordenCompra.itemPresupuestario),
                     MsgFaltaItem)
        d2 == PushIf(d1, ~tieneDato(datos.factura.numeroFactura), MsgFaltaNumeroFactura)
        d3 == PushIf(d2, ~tieneDato(datos.ordenCompra.numeroOC), MsgFaltaNumeroOC)
        d4 == PushIf(d3, ~tieneDato(datos.actaRecepcion.numeroActa), MsgFaltaNumeroActa)
        d5 == PushIf(d4, NoEsTrue(datos.actaRecepcion.conforme), MsgNoConforme)
        d6 == PushIf(d5, ~tieneDato(datos.factura.descripcionServicio), MsgFaltaDescripcion)
        d7 == PushIf(d6, /\ tieneDato(datos.factura.descripcionServicio)
                         /\ ~tieneDato(datos.factura.razonSocial), MsgFaltaRazonSocial)
        d8 == PushIf(d7, ~tieneDato(datos.factura.fechaEmision), MsgFaltaFechaEmision)
        d9 == PushIf(d8, ~tieneDato(datos.actaRecepcion.fechaRecepcion),
                     MsgFaltaFechaRecepcion)
    IN  [throws |-> FALSE,
         descripcionConsistente |-> tieneDato(datos.factura.descripcionServicio),
         recepcionConforme |-> ~NoEsTrue(datos.actaRecepcion.conforme),
         discrepancias |-> d9]

validarIntegridad(datos, discrepancias) ==
    LET d1 == PushIf(discrepancias, ~tieneDato(datos.ordenCompra.itemPresupuestario),
                     MsgFaltaItem)
        d2 == PushIf(d1, ~tieneDato(datos.factura.numeroFactura), MsgFaltaNumeroFactura)
        d3 == PushIf(d2, ~tieneDato(datos.ordenCompra.numeroOC), MsgFaltaNumeroOC)
        d4 == PushIf(d3, ~tieneDato(datos.actaRecepcion.numeroActa), MsgFaltaNumeroActa)
        d5 == PushIf(d4, NoEsTrue(datos.actaRecepcion.conforme), MsgNoConforme)
        d6 == PushIf(d5, ~tieneDato(datos.factura.descripcionServicio), MsgFaltaDescripcion)
        d7 == PushIf(d6, ~tieneDato(datos.factura.razonSocial), MsgFaltaRazonSocial)
        d8 == PushIf(d7, ~tieneDato(datos.factura.fechaEmision), MsgFaltaFechaEmision)
        d9 == PushIf(d8, ~tieneDato(datos.actaRecepcion.fechaRecepcion),
                     MsgFaltaFechaRecepcion)
    IN  [throws |-> FALSE,
         descripcionConsistente |-> tieneDato(datos.factura.descripcionServicio),
         recepcionConforme |-> ~NoEsTrue(datos.actaRecepcion.conforme),
         discrepancias |-> d9]

NoInformado == Str(<<"(", "N", "o", " ", "i", "n", "f", "o", "r", "m", "a", "d", "o", ")">>)

\* variant: the left operand is tested for data, not for truthiness
OrElseConDato(a, b) == IF tieneDato(a) THEN a ELSE b

\* a || b
OrElse(a, b) == IF Truthy(a) THEN a ELSE b

\* variant: one discrepancy is tolerated
EstadoDeTolerante(discrepancias) ==
    IF Len(discrepancias) <= 1 THEN "APROBADO" ELSE "REPARO"

\* discrepancias.length === 0 ? "APROBADO" : "REPARO"
EstadoDe(discrepancias) == IF Len(discrepancias) = 0 THEN "APROBADO" ELSE "REPARO"

(***************************************************************************)
(* Inputs of one validation call.  The three identifiers range over every  *)
(* string of RutChars up to MaxRutLen, the three totals over the integers  *)
(* up to MaxMonto, NaN and two strings, the required texts over a missing, *)
(* an empty, a blank and a present value.  To keep the product finite and  *)
(* small, each family of inputs varies one group of fields exhaustively    *)
(* and draws the other groups from a few representative values.            *)
(***************************************************************************)
RutChars == {"K", "-"}

RECURSIVE StringsOfLen(_, _)
StringsOfLen(chars, n) ==
    IF n = 0 THEN {<<>>}
    ELSE {Append(s, c) : s \in StringsOfLen(chars, n - 1), c \in chars}

StringsUpTo(chars, n) == UNION {StringsOfLen(chars, k) : k \in 0..n}

\* an identifier of dots and whitespace only, and one of another character
RutOtros == {Str(<<".", " ">>), Str(<<"7">>)}

RutValues ==
    {Undefined} \cup {Str(s) : s \in StringsUpTo(RutChars, MaxRutLen)} \cup RutOtros
MontoValues ==
    {Num(n) : n \in 0..MaxMonto} \cup {NaN, Str(<<"a">>), Str(<<"$", "1">>)}
Presente == Str(<<"a">>)
TextoValues == {Undefined, Str(<<" ">>), Presente}
ItemValues == TextoValues \cup {Str(<<>>)}
ConformeValues == {Bool(TRUE), Bool(FALSE), Undefined, Str(<<"t", "r", "u", "e">>)}

\* the required text fields other than the budget item
Textos == [numeroFactura : TextoValues, numeroOC : TextoValues,
           numeroActa : TextoValues, descripcionServicio : TextoValues,
           razonSocial : TextoValues, fechaEmision : TextoValues,
           fechaRecepcion : TextoValues]

TextosPresentes == [numeroFactura |-> Presente, numeroOC |-> Presente,
                    numeroActa |-> Presente, descripcionServicio |-> Presente,
                    razonSocial |-> Presente, fechaEmision |-> Presente,
                    fechaRecepcion |-> Presente]

\* rut and monto are triples <<factura, ordenCompra, actaRecepcion>>
Extraccion(rut, monto, item, txt, conforme) ==
    [factura |-> [rutProveedor |-> rut[1], razonSocial |-> txt.razonSocial,
                  numeroFactura |-> txt.numeroFactura,
                  fechaEmision |-> txt.fechaEmision, montoTotal |-> monto[1],
                  descripcionServicio |-> txt.descripcionServicio],
     ordenCompra |-> [numeroOC |-> txt.numeroOC, rutProveedor |-> rut[2],
                      montoTotal |-> monto[2], itemPresupuestario |-> item],
     actaRecepcion |-> [numeroActa |-> txt.numeroActa, rutProveedor |-> rut[3],
                        montoRecepcionado |-> monto[3],
                        fechaRecepcion |-> txt.fechaRecepcion,
                        conforme |-> conforme]]

RutsRepresentativos ==
    {<<Str(<<"K">>), Str(<<"K">>), Str(<<"K">>)>>,
     <<Str(<<"K">>), Str(<<"K">>), Undefined>>}
MontosRepresentativos ==
    {<<Num(1), Num(2), Num(1)>>, <<Num(2), Num(1), Num(1)>>}
TextosRepresentativos ==
    {TextosPresentes, [TextosPresentes EXCEPT !.numeroOC = Undefined]}

\* the rest of a record around the identifiers: all in order, or all defective
RestoRepresentativo ==
    {[monto |-> <<Num(1), Num(2), Num(1)>>, txt |-> TextosPresentes,
      conforme |-> Bool(TRUE)],
     [monto |-> <<Num(2), Num(1), Num(1)>>,
      txt |-> [TextosPresentes EXCEPT !.numeroOC = Undefined],
      conforme |-> Bool(FALSE)]}

EntradasRUT ==
    {Extraccion(<<f, oc, a>>, x.monto, Presente, x.txt, x.conforme) :
        f \in RutValues, oc \in RutValues, a \in RutValues,
        x \in RestoRepresentativo}

EntradasMontos ==
    {Extraccion(r, <<f, oc, a>>, Presente, txt, c) :
        r \in RutsRepresentativos,
        f \in MontoValues, oc \in MontoValues, a \in MontoValues,
        txt \in TextosRepresentativos, c \in ConformeValues}

EntradasIntegridad ==
    {Extraccion(<<Str(<<"K">>), Str(<<"K", "-">>), Str(<<"-", "K">>)>>,
                <<Num(1), Num(2), Num(1)>>, item, txt, c) :
        item \in ItemValues, txt \in Textos, c \in {Bool(TRUE), Bool(FALSE)}}

\* one required text null, empty or made of several whitespace characters
VaciosValues == {Null, Str(<<>>), Str(<<"\t", " ">>)}

EntradasUnCampo ==
    {Extraccion(<<Str(<<"K">>), Str(<<"K">>), Str(<<"K">>)>>,
                <<Num(1), Num(2), Num(1)>>, Presente,
                [TextosPresentes EXCEPT ![campo] = v], Bool(TRUE)) :
        campo \in DOMAIN TextosPresentes, v \in VaciosValues}
      \cup {Extraccion(<<Str(<<"K">>), Str(<<"K">>), Str(<<"K">>)>>,
                       <<Num(1), Num(2), Num(1)>>, v, TextosPresentes, Bool(TRUE)) :
               v \in VaciosValues}

Entradas == EntradasRUT \cup EntradasMontos \cup EntradasIntegridad \cup EntradasUnCampo

\* instants new Date() may return
Instantes == {0, 1}

(***************************************************************************)
(* One call of validarResolucion(datos).  pc is the statement about to     *)
(* run; a local that is not assigned yet is the empty sequence, an         *)
(* assigned one the sequence of its value.                                 *)
(***************************************************************************)
VARIABLES datos, pc, discrepancias, rutCoincide, montos, integridad, resultado

\* The state of the callers and of the other scenarios of the model, each
\* the empty sequence while its scenario is not running: the object
\* validarYEmpaquetar returns, the concurrent calls, the application of a
\* normalizer to one value, the request of the /api/validate route, the
\* dashboard page, the request of the /api/generate route.
VARIABLES paquete, conc, pura, ruta, tablero, generacion

fuera == <<paquete, conc, pura, ruta, tablero, generacion>>

vars == <<datos, pc, discrepancias, rutCoincide, montos, integridad, resultado,
          paquete, conc, pura, ruta, tablero, generacion>>

Init ==
    /\ datos \in Entradas
    /\ pc = "validarRUT"
    /\ discrepancias = <<>>
    /\ rutCoincide = <<>>
    /\ montos = <<>>
    /\ integridad = <<>>
    /\ resultado = <<>>
    /\ paquete = <<>>
    /\ conc = <<>>
    /\ pura = <<>>
    /\ ruta = <<>>
    /\ tablero = <<>>
    /\ generacion = <<>>

\* variant: the integrity rule is called before the amount rules
PasoSiguienteIntegridadAntes(paso) ==
    CASE paso = "validarRUT" -> "validarIntegridad"
      [] paso = "validarIntegridad" -> "validarMontos"
      [] paso = "validarMontos" -> "construirResultado"
      [] paso = "construirResultado" -> "return"

\* the statement that follows paso in the body of validarResolucion
PasoSiguiente(paso) ==
    CASE paso = "validarRUT" -> "validarMontos"
      [] paso = "validarMontos" -> "validarIntegridad"
      [] paso = "validarIntegridad" -> "construirResultado"
      [] paso = "construirResultado" -> "return"

LlamarValidarRUT ==
    /\ pc = "validarRUT"
    /\ LET r == validarRUT(datos, discrepancias)
       IN  IF r.throws
           THEN /\ pc' = "throw"
                /\ UNCHANGED <<discrepancias, rutCoincide>>
           ELSE /\ pc' = PasoSiguiente(pc)
                /\ discrepancias' = r.discrepancias
                /\ rutCoincide' = <<r.ret>>
    /\ UNCHANGED <<datos, montos, integridad, resultado>>
    /\ UNCHANGED fuera

LlamarValidarMontos ==
    /\ pc = "validarMontos"
    /\ LET r == validarMontos(datos, discrepancias)
       IN  IF r.throws
           THEN /\ pc' = "throw"
                /\ UNCHANGED <<discrepancias, montos>>
           ELSE /\ pc' = PasoSiguiente(pc)
                /\ discrepancias' = r.discrepancias
                /\ montos' = <<[montosCoinciden |-> r.montosCoinciden,
                                montoOCSuficiente |-> r.montoOCSuficiente]>>
    /\ UNCHANGED <<datos, rutCoincide, integridad, resultado>>
    /\ UNCHANGED fuera

LlamarValidarIntegridad ==
    /\ pc = "validarIntegridad"
    /\ LET r == validarIntegridad(datos, discrepancias)
       IN  IF r.throws
           THEN /\ pc' = "throw"
                /\ UNCHANGED <<discrepancias, integridad>>
           ELSE /\ pc' = PasoSiguiente(pc)
                /\ discrepancias' = r.discrepancias
                /\ integridad' = <<[descripcionConsistente |-> r.descripcionConsistente,
                                    recepcionConforme |-> r.recepcionConforme]>>
    /\ UNCHANGED <<datos, rutCoincide, montos, resultado>>
    /\ UNCHANGED fuera

\* the checks object, the verdict and the result object
ConstruirChecks(d, rc, m, i) ==
    [rutCoincide |-> rc,
     montosCoinciden |-> m.montosCoinciden,
     montoOCSuficiente |-> m.montoOCSuficiente,
     descripcionConsistente |-> i.descripcionConsistente,
     recepcionConforme |-> i.recepcionConforme,
     itemPresupuestario |-> OrElse(d.ordenCompra.itemPresupuestario, NoInformado)]

ConstruirResultado ==
    /\ pc = "construirResultado"
    /\ \E ahora \in Instantes :
          resultado' = <<[estado |-> EstadoDe(discrepancias),
                          checks |-> ConstruirChecks(datos, rutCoincide[1],
                                                     montos[1], integridad[1]),
                          discrepancias |-> discrepancias,
                          fechaValidacion |-> ahora]>>
    /\ pc' = PasoSiguiente(pc)
    /\ UNCHANGED <<datos, discrepancias, rutCoincide, montos, integridad>>
    /\ UNCHANGED fuera

Next ==
    \/ LlamarValidarRUT
    \/ LlamarValidarMontos
    \/ LlamarValidarIntegridad
    \/ ConstruirResultado

Spec == Init /\ [][Next]_vars

(***************************************************************************)
(* validarYEmpaquetar(datos): the call of validarResolucion above, then    *)
(* the object that pairs its result with the input.                        *)
(***************************************************************************)
\* variant: the identifiers are handed on normalized
EmpaquetarNormalizado(validacion, d) ==
    [validacion |-> validacion,
     datosValidados |->
        [d EXCEPT !.factura.rutProveedor = Str(normalizarRUT(@).value),
                  !.ordenCompra.rutProveedor = Str(normalizarRUT(@).value),
                  !.actaRecepcion.rutProveedor = Str(normalizarRUT(@).value)]]

\* { validacion, datosValidados: datos }
Empaquetar(validacion, d) == [validacion |-> validacion, datosValidados |-> d]

RetornarPaquete ==
    /\ pc = "return"
    /\ paquete = <<>>
    /\ paquete' = <<Empaquetar(resultado[1], datos)>>
    /\ UNCHANGED <<datos, pc, discrepancias, rutCoincide, montos, integridad,
                   resultado, conc, pura, ruta, tablero, generacion>>

NextEmpaquetar ==
    \/ LlamarValidarRUT
    \/ LlamarValidarMontos
    \/ LlamarValidarIntegridad
    \/ ConstruirResultado
    \/ RetornarPaquete

SpecEmpaquetar == Init /\ [][NextEmpaquetar]_vars

(***************************************************************************)
(* validarResolucion(datos) as one function of its input and of the        *)
(* instant of the call: the three rules on one fresh list, the checks, the *)
(* verdict.                                                                *)
(***************************************************************************)
\* the result built from what the three rules returned (r1, r2, r3)
ResultadoDe(d, ahora, r1, r2, r3) ==
    IF r1.throws \/ r2.throws \/ r3.throws THEN Throw
    ELSE Return([estado |-> EstadoDe(r3.discrepancias),
                 checks |-> ConstruirChecks(d, r1.ret,
                                [montosCoinciden |-> r2.montosCoinciden,
                                 montoOCSuficiente |-> r2.montoOCSuficiente],
                                [descripcionConsistente |-> r3.descripcionConsistente,
                                 recepcionConforme |-> r3.recepcionConforme]),
                 discrepancias |-> r3.discrepancias,
                 fechaValidacion |-> ahora])

\* the third rule on the list the second left
TrasValidarMontos(d, ahora, r1, r2) ==
    ResultadoDe(d, ahora, r1, r2, validarIntegridad(d, r2.discrepancias))

\* the second rule on the list the first left
TrasValidarRUT(d, ahora, r1) ==
    TrasValidarMontos(d, ahora, r1, validarMontos(d, r1.discrepancias))

validarResolucion(d, ahora) == TrasValidarRUT(d, ahora, validarRUT(d, <<>>))

validarYEmpaquetar(d, ahora) ==
    LET v == validarResolucion(d, ahora)
    IN  IF v.throws THEN Throw ELSE Return(Empaquetar(v.value, d))

(***************************************************************************)
(* Several calls of validarResolucion in flight at once, their statements  *)
(* interleaved in any order.  Arrays are objects of a heap: a call holds   *)
(* the reference of the array it allocated on entry, and a result holds    *)
(* the reference of its discrepancy array, not a copy.                     *)
(***************************************************************************)
MaxLlamadas == 2

Llamadas == 1..MaxLlamadas

EntradasConc ==
    {Extraccion(<<Str(<<"K">>), Str(<<"K", "-">>), Str(<<"-", "K">>)>>,
                <<Num(1), Num(2), Num(1)>>, Presente, TextosPresentes, Bool(TRUE)),
     Extraccion(<<Str(<<"K">>), Str(<<"K", "K">>), Str(<<"K">>)>>,
                <<Num(1), Num(2), Num(1)>>, Presente, TextosPresentes, Bool(TRUE)),
     Extraccion(<<Str(<<"K">>), Str(<<"K">>), Str(<<"K">>)>>,
                <<Num(2), Num(1), Num(1)>>, Presente,
                [TextosPresentes EXCEPT !.numeroOC = Undefined], Bool(FALSE)),
     Extraccion(<<Str(<<"K">>), Undefined, Str(<<"K">>)>>,
                <<NaN, Str(<<"a">>), Num(1)>>, Str(<<" ">>), TextosPresentes,
                Bool(TRUE))}

ValidacionOciosa ==
    /\ datos = <<>>
    /\ pc = "ocioso"
    /\ discrepancias = <<>>
    /\ rutCoincide = <<>>
    /\ montos = <<>>
    /\ integridad = <<>>
    /\ resultado = <<>>

varsValidacion ==
    <<datos, pc, discrepancias, rutCoincide, montos, integridad, resultado>>

InitConcurrente ==
    /\ ValidacionOciosa
    /\ tablero = <<>>
    /\ generacion = <<>>
    /\ paquete = <<>>
    /\ pura = <<>>
    /\ ruta = <<>>
    /\ \E d \in [Llamadas -> EntradasConc] :
          conc = <<[datos |-> d,
                    pc |-> [c \in Llamadas |-> "entrar"],
                    lista |-> [c \in Llamadas |-> 0],
                    heap |-> [l \in Llamadas |-> <<>>],
                    rutCoincide |-> [c \in Llamadas |-> <<>>],
                    montos |-> [c \in Llamadas |-> <<>>],
                    integridad |-> [c \in Llamadas |-> <<>>],
                    resultado |-> [c \in Llamadas |-> <<>>]]>>

\* variant: one array at module scope, emptied on entry, for every call
ListaCompartida(c) == 1

\* const discrepancias: string[] = []; the array call c allocates
ListaNueva(c) == c

ConcEntrar(c) ==
    /\ conc # <<>>
    /\ conc[1].pc[c] = "entrar"
    /\ conc' = <<[conc[1] EXCEPT !.pc[c] = "validarRUT",
                                 !.lista[c] = ListaNueva(c),
                                 !.heap[ListaNueva(c)] = <<>>]>>
    /\ UNCHANGED <<varsValidacion, paquete, pura, ruta, tablero, generacion>>

ConcValidarRUT(c) ==
    /\ conc # <<>>
    /\ conc[1].pc[c] = "validarRUT"
    /\ LET k == conc[1]
           r == validarRUT(k.datos[c], k.heap[k.lista[c]])
       IN  conc' = <<[k EXCEPT !.pc[c] = IF r.throws THEN "throw" ELSE PasoSiguiente(@),
                               !.heap[k.lista[c]] = r.discrepancias,
                               !.rutCoincide[c] = <<r.ret>>]>>
    /\ UNCHANGED <<varsValidacion, paquete, pura, ruta, tablero, generacion>>

ConcValidarMontos(c) ==
    /\ conc # <<>>
    /\ conc[1].pc[c] = "validarMontos"
    /\ LET k == conc[1]
           r == validarMontos(k.datos[c], k.heap[k.lista[c]])
       IN  conc' = <<[k EXCEPT !.pc[c] = IF r.throws THEN "throw" ELSE PasoSiguiente(@),
                               !.heap[k.lista[c]] = r.discrepancias,
                               !.montos[c] =
                                   <<[montosCoinciden |-> r.montosCoinciden,
                                      montoOCSuficiente |-> r.montoOCSuficiente]>>]>>
    /\ UNCHANGED <<varsValidacion, paquete, pura, ruta, tablero, generacion>>

ConcValidarIntegridad(c) ==
    /\ conc # <<>>
    /\ conc[1].pc[c] = "validarIntegridad"
    /\ LET k == conc[1]
           r == validarIntegridad(k.datos[c], k.heap[k.lista[c]])
       IN  conc' = <<[k EXCEPT !.pc[c] = IF r.throws THEN "throw" ELSE PasoSiguiente(@),
                               !.heap[k.lista[c]] = r.discrepancias,
                               !.integridad[c] =
                                   <<[descripcionConsistente |-> r.descripcionConsistente,
                                      recepcionConforme |-> r.recepcionConforme]>>]>>
    /\ UNCHANGED <<varsValidacion, paquete, pura, ruta, tablero, generacion>>

ConcConstruirResultado(c) ==
    /\ conc # <<>>
    /\ conc[1].pc[c] = "construirResultado"
    /\ LET k == conc[1]
       IN  \E ahora \in Instantes :
              conc' = <<[k EXCEPT
                  !.pc[c] = PasoSiguiente(@),
                  !.resultado[c] =
                      <<[estado |-> EstadoDe(k.heap[k.lista[c]]),
                         checks |-> ConstruirChecks(k.datos[c], k.rutCoincide[c][1],
                                        k.montos[c][1], k.integridad[c][1]),
                         discrepancias |-> k.lista[c],
                         fechaValidacion |-> ahora]>>]>>
    /\ UNCHANGED <<varsValidacion, paquete, pura, ruta, tablero, generacion>>

NextConcurrente ==
    \/ \E c \in Llamadas : ConcEntrar(c)
    \/ \E c \in Llamadas : ConcValidarRUT(c)
    \/ \E c \in Llamadas : ConcValidarMontos(c)
    \/ \E c \in Llamadas : ConcValidarIntegridad(c)
    \/ \E c \in Llamadas : ConcConstruirResultado(c)

SpecConcurrente == InitConcurrente /\ [][NextConcurrente]_vars

(***************************************************************************)
(* normalizarRUT applied to one identifier: x is the identifier as first   *)
(* written, y a rewriting of it with punctuation inserted and letters      *)
(* switched between upper and lower case, salida the normal form of y and  *)
(* doble the normal form of salida.                                        *)
(***************************************************************************)
MaxNormLen == 2

NormChars == {"7", "K", "k", ".", "-", " ", ","}
Puntuacion == {".", "-", " ", "\t"}

RutEjemplos ==
    {<<"7", "6", ".", "1", "2", "3", ".", "4", "5", "6", "-", "7">>,
     <<"7", "6", "1", "2", "3", "4", "5", "6", "-", "7">>,
     <<"7", "6", ".", "1", "2", "3", ".", "4", "5", "6", "-", "K">>}

\* identifiers written with other separators
RutOtrosSignos == {<<"7", "/", "K">>, <<"7", "_", "K">>, <<"7", ",", "K">>}

OtraCaja(c) == CASE c = "K" -> "k" [] c = "k" -> "K" [] OTHER -> c

InitNormalizar ==
    /\ ValidacionOciosa
    /\ tablero = <<>>
    /\ generacion = <<>>
    /\ paquete = <<>>
    /\ conc = <<>>
    /\ ruta = <<>>
    /\ \E x \in StringsUpTo(NormChars, MaxNormLen) \cup RutEjemplos \cup RutOtrosSignos :
          pura = <<[x |-> x, y |-> x, salida |-> <<>>, doble |-> <<>>]>>

InsertarPuntuacion ==
    /\ pura # <<>>
    /\ pura[1].salida = <<>>
    /\ Len(pura[1].y) <= MaxNormLen
    /\ \E i \in 0..Len(pura[1].y), c \in Puntuacion :
          pura' = <<[pura[1] EXCEPT !.y = SubSeq(@, 1, i) \o <<c>> \o SubSeq(@, i + 1, Len(@))]>>
    /\ UNCHANGED <<varsValidacion, paquete, conc, ruta, tablero, generacion>>

CambiarCaja ==
    /\ pura # <<>>
    /\ pura[1].salida = <<>>
    /\ \E i \in 1..Len(pura[1].y) :
          /\ OtraCaja(pura[1].y[i]) # pura[1].y[i]
          /\ pura' = <<[pura[1] EXCEPT !.y[i] = OtraCaja(@)]>>
    /\ UNCHANGED <<varsValidacion, paquete, conc, ruta, tablero, generacion>>

Normalizar ==
    /\ pura # <<>>
    /\ pura[1].salida = <<>>
    /\ pura' = <<[pura[1] EXCEPT !.salida = <<normalizarRUT(Str(pura[1].y))>>]>>
    /\ UNCHANGED <<varsValidacion, paquete, conc, ruta, tablero, generacion>>

NormalizarOtraVez ==
    /\ pura # <<>>
    /\ pura[1].salida # <<>>
    /\ ~pura[1].salida[1].throws
    /\ pura[1].doble = <<>>
    /\ pura' = <<[pura[1] EXCEPT
                    !.doble = <<normalizarRUT(Str(pura[1].salida[1].value))>>]>>
    /\ UNCHANGED <<varsValidacion, paquete, conc, ruta, tablero, generacion>>

NextNormalizar ==
    \/ InsertarPuntuacion
    \/ CambiarCaja
    \/ Normalizar
    \/ NormalizarOtraVez

SpecNormalizar == InitNormalizar /\ [][NextNormalizar]_vars

(***************************************************************************)
(* limpiarMonto applied to one amount: x is the amount as first written    *)
(* (a number, a string, or a value of another type), y a rewriting of a    *)
(* string amount with currency symbols, whitespace and thousands dots      *)
(* inserted, and salida what limpiarMonto returns for y.                   *)
(***************************************************************************)
MaxMontoLen == 3

MontoChars == {"1", "0", "$", ".", ",", " ", "a"}
Adornos == {"$", " ", "."}

MontoEjemplo == <<"$", "1", ".", "1", "9", "0", ".", "0", "0", "0">>
MontoNoNumerico == <<"a", "b", "c">>

MontoEntradas ==
    {Str(s) : s \in StringsUpTo(MontoChars, MaxMontoLen) \cup {MontoEjemplo, MontoNoNumerico}}
        \cup {Num(0), Num(1190000), [t |-> "number", nan |-> FALSE, num |-> 15, den |-> 10],
              NaN, Undefined, Bool(TRUE)}

InitMonto ==
    /\ ValidacionOciosa
    /\ tablero = <<>>
    /\ generacion = <<>>
    /\ paquete = <<>>
    /\ conc = <<>>
    /\ ruta = <<>>
    /\ \E x \in MontoEntradas : pura = <<[x |-> x, y |-> x, salida |-> <<>>]>>

InsertarAdorno ==
    /\ pura # <<>>
    /\ pura[1].salida = <<>>
    /\ pura[1].y.t = "string"
    /\ Len(pura[1].y.s) <= MaxMontoLen
    /\ \E i \in 0..Len(pura[1].y.s), c \in Adornos :
          pura' = <<[pura[1] EXCEPT
                       !.y.s = SubSeq(@, 1, i) \o <<c>> \o SubSeq(@, i + 1, Len(@))]>>
    /\ UNCHANGED <<varsValidacion, paquete, conc, ruta, tablero, generacion>>

LimpiarMonto ==
    /\ pura # <<>>
    /\ pura[1].salida = <<>>
    /\ pura' = <<[pura[1] EXCEPT !.salida = <<limpiarMonto(pura[1].y)>>]>>
    /\ UNCHANGED <<varsValidacion, paquete, conc, ruta, tablero, generacion>>

NextMonto ==
    \/ InsertarAdorno
    \/ LimpiarMonto

SpecMonto == InitMonto /\ [][NextMonto]_vars

(***************************************************************************)
(* POST /api/validate.  A request carries a text that request.json()       *)
(* either rejects or turns into a value; a JSON object is the record of    *)
(* its keys (campos), a JSON null is Undefined.  The handler suspends at   *)
(* the await of request.json(); llamadas lists the arguments the engine    *)
(* was invoked with.                                                       *)
(***************************************************************************)
JsonObject(campos) == [t |-> "object", campos |-> campos]

FacturaSchema ==
    [rutProveedor |-> "string", razonSocial |-> "string", numeroFactura |-> "string",
     fechaEmision |-> "string", montoNeto |-> "number", iva |-> "number",
     montoTotal |-> "number", descripcionServicio |-> "string"]

OrdenCompraSchema ==
    [numeroOC |-> "string", rutProveedor |-> "string", razonSocial |-> "string",
     montoTotal |-> "number", itemPresupuestario |-> "string",
     descripcion |-> "string", fechaOC |-> "string"]

ActaRecepcionSchema ==
    [numeroActa |-> "string", rutProveedor |-> "string",
     montoRecepcionado |-> "number", fechaRecepcion |-> "string",
     descripcion |-> "string", conforme |-> "boolean"]

ExtraccionCompletaSchema ==
    [factura |-> FacturaSchema, ordenCompra |-> OrdenCompraSchema,
     actaRecepcion |-> ActaRecepcionSchema]

\* z.string(), z.number() (NaN is refused) and z.boolean() on one value
ZodTipoOk(v, tipo) ==
    CASE tipo = "string" -> v.t = "string"
      [] tipo = "number" -> v.t = "number" /\ ~v.nan
      [] tipo = "boolean" -> v.t = "boolean"

\* z.object(schema) on one value: an object holding every key of the schema
\* with a value of its type; keys the schema does not name are allowed
ZodObjectOk(v, schema) ==
    /\ v.t = "object"
    /\ \A k \in DOMAIN schema : k \in DOMAIN v.campos /\ ZodTipoOk(v.campos[k], schema[k])

\* the parsed output of z.object(schema): the keys of the schema only
ZodStrip(v, schema) == [k \in DOMAIN schema |-> v.campos[k]]

\* ExtraccionCompletaSchema.safeParse(body)
safeParse(body) ==
    IF /\ body.t = "object"
       /\ \A d \in DOMAIN ExtraccionCompletaSchema :
             /\ d \in DOMAIN body.campos
             /\ ZodObjectOk(body.campos[d], ExtraccionCompletaSchema[d])
    THEN [success |-> TRUE,
          data |-> <<[d \in DOMAIN ExtraccionCompletaSchema |->
                        ZodStrip(body.campos[d], ExtraccionCompletaSchema[d])]>>]
    ELSE [success |-> FALSE, data |-> <<>>]

Respuesta400 == [status |-> 400, success |-> FALSE, data |-> <<>>]
Respuesta500 == [status |-> 500, success |-> FALSE, data |-> <<>>]

\* variant: a result with discrepancies is answered as a client error
RespuestaSegunEstado(res) ==
    IF res.validacion.estado = "APROBADO"
    THEN [status |-> 200, success |-> TRUE, data |-> <<res>>]
    ELSE [status |-> 400, success |-> FALSE, data |-> <<res>>]

RespuestaExito(res) == [status |-> 200, success |-> TRUE, data |-> <<res>>]

\* the fields of the schemas that the engine does not read
Completa(d) ==
    [factura |-> d.factura @@ [montoNeto |-> Num(1), iva |-> Num(0)],
     ordenCompra |-> d.ordenCompra @@ [razonSocial |-> Presente, descripcion |-> Presente,
                                       fechaOC |-> Presente],
     actaRecepcion |-> d.actaRecepcion @@ [descripcion |-> Presente]]

Cuerpo(d) ==
    JsonObject([k \in DOMAIN d |-> JsonObject(d[k])])

CuerposConformes ==
    {Cuerpo(Completa(Extraccion(r, m, Presente, txt, c))) :
        r \in {<<Str(<<"K">>), Str(<<"K">>), Str(<<"K">>)>>,
               <<Str(<<"K">>), Str(<<"K", "-">>), Str(<<"K", "K">>)>>},
        m \in MontosRepresentativos,
        txt \in {TextosPresentes, [TextosPresentes EXCEPT !.numeroOC = Str(<<>>)]},
        c \in {Bool(TRUE), Bool(FALSE)}}

CuerpoBase ==
    Cuerpo(Completa(Extraccion(<<Str(<<"K">>), Str(<<"K">>), Str(<<"K">>)>>,
                               <<Num(1), Num(2), Num(1)>>, Presente, TextosPresentes,
                               Bool(TRUE))))

\* one field of one document left out, null, or of another type
Defecto(c, f, clase) ==
    CASE clase = "falta" -> [k \in (DOMAIN c) \ {f} |-> c[k]]
      [] clase = "null" -> [c EXCEPT ![f] = Undefined]
      [] clase = "tipo" -> [c EXCEPT ![f] = IF c[f].t = "string" THEN Num(1)
                                            ELSE Str(<<"1">>)]

CuerposDefectuosos ==
    {[CuerpoBase EXCEPT !.campos[d].campos = Defecto(@, f, clase)] :
        <<d, f>> \in UNION {{<<dd, ff>> : ff \in DOMAIN ExtraccionCompletaSchema[dd]} :
                               dd \in DOMAIN ExtraccionCompletaSchema},
        clase \in {"falta", "null", "tipo"}}
      \cup {[CuerpoBase EXCEPT !.campos = Defecto(@, d, clase)] :
              d \in DOMAIN ExtraccionCompletaSchema, clase \in {"falta", "null", "tipo"}}
      \cup {Undefined, Str(<<"a">>), Num(1)}

\* a conforming body with a key the schema does not name
CuerposConSobrante ==
    {[b EXCEPT !.campos.factura.campos = @ @@ [otro |-> Presente]] : b \in CuerposConformes}

Peticiones ==
    {[jsonValido |-> FALSE, valor |-> Undefined]}
        \cup {[jsonValido |-> TRUE, valor |-> v] :
                 v \in CuerposConformes \cup CuerposDefectuosos \cup CuerposConSobrante}

InitRuta ==
    /\ ValidacionOciosa
    /\ tablero = <<>>
    /\ generacion = <<>>
    /\ paquete = <<>>
    /\ conc = <<>>
    /\ pura = <<>>
    /\ \E p \in Peticiones :
          ruta = <<[peticion |-> p, pc |-> "json", body |-> <<>>, data |-> <<>>,
                    llamadas |-> <<>>, respuesta |-> <<>>]>>

Responder(r, respuesta) == [r EXCEPT !.pc = "fin", !.respuesta = <<respuesta>>]

\* body = await request.json(), and the 400 of its catch
RutaLeerJSON ==
    /\ ruta # <<>>
    /\ ruta[1].pc = "json"
    /\ ruta' = IF ruta[1].peticion.jsonValido
               THEN <<[ruta[1] EXCEPT !.pc = "safeParse",
                                      !.body = <<ruta[1].peticion.valor>>]>>
               ELSE <<Responder(ruta[1], Respuesta400)>>
    /\ UNCHANGED <<varsValidacion, paquete, conc, pura, tablero, generacion>>

\* the schema check and the 400 of its failure
RutaSafeParse ==
    /\ ruta # <<>>
    /\ ruta[1].pc = "safeParse"
    /\ LET parseResult == safeParse(ruta[1].body[1])
       IN  ruta' = IF ~parseResult.success
                   THEN <<Responder(ruta[1], Respuesta400)>>
                   ELSE <<[ruta[1] EXCEPT !.pc = "validar", !.data = parseResult.data]>>
    /\ UNCHANGED <<varsValidacion, paquete, conc, pura, tablero, generacion>>

\* validarYEmpaquetar(parseResult.data) and the answer, or the 500 of the
\* outer catch
RutaValidar ==
    /\ ruta # <<>>
    /\ ruta[1].pc = "validar"
    /\ \E ahora \in Instantes :
          LET res == validarYEmpaquetar(ruta[1].data[1], ahora)
              llamado == [ruta[1] EXCEPT !.llamadas = Append(@, ruta[1].data[1])]
          IN  ruta' = IF res.throws
                      THEN <<Responder(llamado, Respuesta500)>>
                      ELSE <<Responder(llamado, RespuestaExito(res.value))>>
    /\ UNCHANGED <<varsValidacion, paquete, conc, pura, tablero, generacion>>

NextRuta ==
    \/ RutaLeerJSON
    \/ RutaSafeParse
    \/ RutaValidar

SpecRuta == InitRuta /\ [][NextRuta]_vars

(***************************************************************************)
(* validarResolucion called on a record (d) and again on the same record   *)
(* with the description of the order or of the receipt replaced (e).       *)
(***************************************************************************)
DescripcionValues == TextoValues \cup VaciosValues \cup {Str(<<"b">>)}

EntradasDescripcion ==
    {Completa(Extraccion(r, m, Presente,
                         [TextosPresentes EXCEPT !.descripcionServicio = v], c)) :
        r \in RutsRepresentativos, m \in MontosRepresentativos,
        v \in DescripcionValues, c \in {Bool(TRUE), Bool(FALSE)}}

InitDescripcion ==
    /\ ValidacionOciosa
    /\ tablero = <<>>
    /\ generacion = <<>>
    /\ paquete = <<>>
    /\ conc = <<>>
    /\ ruta = <<>>
    /\ \E d \in EntradasDescripcion :
          pura = <<[d |-> d, e |-> d, antes |-> <<>>, despues |-> <<>>]>>

ValidarAntes ==
    /\ pura # <<>>
    /\ pura[1].antes = <<>>
    /\ \E ahora \in Instantes :
          pura' = <<[pura[1] EXCEPT !.antes = <<validarResolucion(pura[1].d, ahora)>>]>>
    /\ UNCHANGED <<varsValidacion, paquete, conc, ruta, tablero, generacion>>

CambiarDescripcionOC ==
    /\ pura # <<>>
    /\ pura[1].despues = <<>>
    /\ \E v \in DescripcionValues :
          /\ v # pura[1].e.ordenCompra.descripcion
          /\ pura' = <<[pura[1] EXCEPT !.e.ordenCompra.descripcion = v]>>
    /\ UNCHANGED <<varsValidacion, paquete, conc, ruta, tablero, generacion>>

CambiarDescripcionActa ==
    /\ pura # <<>>
    /\ pura[1].despues = <<>>
    /\ \E v \in DescripcionValues :
          /\ v # pura[1].e.actaRecepcion.descripcion
          /\ pura' = <<[pura[1] EXCEPT !.e.actaRecepcion.descripcion = v]>>
    /\ UNCHANGED <<varsValidacion, paquete, conc, ruta, tablero, generacion>>

ValidarDespues ==
    /\ pura # <<>>
    /\ pura[1].antes # <<>>
    /\ pura[1].despues = <<>>
    /\ \E ahora \in Instantes :
          pura' = <<[pura[1] EXCEPT !.despues = <<validarResolucion(pura[1].e, ahora)>>]>>
    /\ UNCHANGED <<varsValidacion, paquete, conc, ruta, tablero, generacion>>

NextDescripcion ==
    \/ ValidarAntes
    \/ CambiarDescripcionOC
    \/ CambiarDescripcionActa
    \/ ValidarDespues

SpecDescripcion == InitDescripcion /\ [][NextDescripcion]_vars

(***************************************************************************)
(* validarResolucion called on a record (d) and again on the same record   *)
(* with the budget item of the order replaced (e).                         *)
(***************************************************************************)
ItemsEco == ItemValues \cup VaciosValues \cup {Str(<<"b">>)}

EntradasItem ==
    {Extraccion(r, m, item, TextosPresentes, c) :
        r \in RutsRepresentativos, m \in MontosRepresentativos,
        item \in ItemsEco, c \in {Bool(TRUE), Bool(FALSE)}}

InitItem ==
    /\ ValidacionOciosa
    /\ tablero = <<>>
    /\ generacion = <<>>
    /\ paquete = <<>>
    /\ conc = <<>>
    /\ ruta = <<>>
    /\ \E d \in EntradasItem :
          pura = <<[d |-> d, e |-> d, antes |-> <<>>, despues |-> <<>>]>>

CambiarItem ==
    /\ pura # <<>>
    /\ pura[1].despues = <<>>
    /\ pura[1].e = pura[1].d
    /\ \E v \in ItemsEco :
          /\ v # pura[1].e.ordenCompra.itemPresupuestario
          /\ pura' = <<[pura[1] EXCEPT !.e.ordenCompra.itemPresupuestario = v]>>
    /\ UNCHANGED <<varsValidacion, paquete, conc, ruta, tablero, generacion>>

NextItem ==
    \/ ValidarAntes
    \/ CambiarItem
    \/ ValidarDespues

SpecItem == InitItem /\ [][NextItem]_vars

(***************************************************************************)
(* The dashboard page: the handlers of the page component and the run of   *)
(* procesarPago, suspended at each awaited fetch.  The continuation after  *)
(* an answer runs to its next await (or to its end) in one step; the       *)
(* state of the component is the last value given to each state setter.    *)
(***************************************************************************)
TipoDoc == {"factura", "ordenCompra", "actaRecepcion"}

\* the runs of procesarPago one page is followed for
MaxCorridas == 2

\* a text of the page, as a string of one symbol; "" is the empty string
Texto(s) == IF s = "" THEN Str(<<>>) ELSE Str(<<s>>)

\* the answers of the three routes: a rejected fetch, or a response with
\* its ok flag and the value res.json() resolves to (<<>> when it rejects)
Rechazo == [t |-> "rejected"]
Response(ok, json) == [t |-> "response", ok |-> ok, json |-> json]
CuerpoJson(data, error) == [t |-> "object", data |-> data, error |-> error]

Doc(tipo) == [t |-> "object", tipo |-> tipo]
DocValues == {Undefined, Doc("texto"), Doc("imagen")}
Contenidos(f, o, a) ==
    [t |-> "object", factura |-> f, ordenCompra |-> o, actaRecepcion |-> a]
ResultadoCompleto(e) == [t |-> "object", validacion |-> [estado |-> e]]

DataUpload ==
    {Undefined} \cup {Contenidos(f, o, a) : f \in DocValues, o \in DocValues,
                                            a \in DocValues}
DataExtract == {Undefined, Doc("extraccion")}
DataValidate ==
    {Undefined, ResultadoCompleto("APROBADO"), ResultadoCompleto("REPARO")}

RespuestasDe(data) ==
    {Rechazo} \cup
    {Response(ok, j) :
        ok \in BOOLEAN,
        j \in {<<>>, <<Null>>} \cup
              {<<CuerpoJson(d, e)>> : d \in data, e \in {Undefined, Texto("e")}}}

todosListos(archivos) == archivos = TipoDoc

enProceso(estado) == estado \notin {"IDLE", "COMPLETADO", "ERROR"}

\* variant: the ok flag of the answer is not looked at
OkSiempre(res) == TRUE

\* res.ok
Ok(res) == res.ok

ThrowError(message) == [throws |-> TRUE, value |-> message]

\* [c1, c2, c3].some((c) => c.tipo === "imagen")
RECURSIVE SomeImagen(_)
SomeImagen(cs) ==
    IF cs = <<>> THEN Return(FALSE)
    ELSE IF Head(cs).t = "undefined" THEN ThrowError(Texto("TypeError"))
    ELSE IF Head(cs).tipo = "imagen" THEN Return(TRUE)
    ELSE SomeImagen(Tail(cs))

\* const res = await fetch(...); if (!res.ok) { const err = await
\* res.json(); throw new Error(err.error || defecto); } await res.json()
LeerRespuesta(res, defecto) ==
    IF res.t = "rejected" THEN ThrowError(Texto("Failed to fetch"))
    ELSE IF res.json = <<>> THEN ThrowError(Texto("SyntaxError"))
    ELSE IF ~Ok(res)
         THEN IF res.json[1].t = "null" THEN ThrowError(Texto("TypeError"))
              ELSE ThrowError(OrElse(res.json[1].error, defecto))
    ELSE Return(res.json[1])

\* x.data
Data(x) == IF x.t = "null" THEN ThrowError(Texto("TypeError")) ELSE Return(x.data)

Anotar(t, de, res) ==
    [t EXCEPT !.respuestas =
        Append(@, [de |-> de, ok |-> res.t = "response" /\ res.ok])]

Catch(t, err) ==
    [t EXCEPT !.estado = "ERROR", !.error = err, !.mensaje = Texto(""),
              !.pc = "ocioso", !.contenidos = <<>>]

InitTablero ==
    /\ ValidacionOciosa
    /\ paquete = <<>>
    /\ conc = <<>>
    /\ pura = <<>>
    /\ ruta = <<>>
    /\ generacion = <<>>
    /\ tablero = <<[archivos |-> {}, estado |-> "IDLE", mensaje |-> Texto(""),
                    error |-> Texto(""), resultado |-> Null, pc |-> "ocioso",
                    contenidos |-> <<>>, peticiones |-> <<>>,
                    respuestas |-> <<>>, corridas |-> 0]>>

Quieto == UNCHANGED <<varsValidacion, paquete, conc, pura, ruta, generacion>>

\* handleFileSelect, reached through the card, which ignores the click
\* while a run is in process
handleFileSelect(tipo, valido) ==
    /\ ~enProceso(tablero[1].estado)
    /\ tablero[1].pc = "ocioso"
    /\ tablero' =
          IF valido
          THEN <<[tablero[1] EXCEPT !.error = Texto(""),
                                    !.archivos = @ \cup {tipo}]>>
          ELSE <<[tablero[1] EXCEPT !.error = Texto("formato")]>>
    /\ Quieto

\* procesarPago up to its first await; the button is disabled unless the
\* three files are chosen and no run is in process
procesarPago ==
    /\ todosListos(tablero[1].archivos)
    /\ ~enProceso(tablero[1].estado)
    /\ tablero[1].pc = "ocioso"
    /\ tablero[1].corridas < MaxCorridas
    /\ tablero' = <<[tablero[1] EXCEPT
                        !.error = Texto(""), !.resultado = Null,
                        !.estado = "CARGANDO", !.mensaje = Texto("Subiendo"),
                        !.peticiones = <<"upload">>, !.respuestas = <<>>,
                        !.pc = "upload", !.corridas = @ + 1]>>
    /\ Quieto

TrasUpload(t, leido) ==
    IF leido.throws THEN Catch(t, leido.value)
    ELSE IF Data(leido.value).throws THEN Catch(t, Data(leido.value).value)
    ELSE IF Data(leido.value).value.t = "undefined"
         THEN Catch(t, Texto("TypeError"))
    ELSE IF SomeImagen(<<Data(leido.value).value.factura,
                         Data(leido.value).value.ordenCompra,
                         Data(leido.value).value.actaRecepcion>>).throws
         THEN Catch(t, Texto("TypeError"))
    ELSE [t EXCEPT !.estado = "ANALIZANDO",
                   !.mensaje =
                       IF SomeImagen(<<Data(leido.value).value.factura,
                                       Data(leido.value).value.ordenCompra,
                                       Data(leido.value).value.actaRecepcion>>).value
                       THEN Texto("IA Vision") ELSE Texto("IA"),
                   !.contenidos = <<Data(leido.value).value>>,
                   !.peticiones = Append(@, "extract"),
                   !.pc = "extract"]

ResponderUpload ==
    /\ tablero[1].pc = "upload"
    /\ \E res \in RespuestasDe(DataUpload) :
          tablero' = <<TrasUpload(Anotar(tablero[1], "upload", res),
                                  LeerRespuesta(res, Texto("Error al subir")))>>
    /\ Quieto

TrasExtract(t, leido) ==
    IF leido.throws THEN Catch(t, leido.value)
    ELSE IF Data(leido.value).throws THEN Catch(t, Data(leido.value).value)
    ELSE [t EXCEPT !.estado = "VALIDANDO", !.mensaje = Texto("Ejecutando"),
                   !.contenidos = <<>>,
                   !.peticiones = Append(@, "validate"),
                   !.pc = "validate"]

ResponderExtract ==
    /\ tablero[1].pc = "extract"
    /\ \E res \in RespuestasDe(DataExtract) :
          tablero' = <<TrasExtract(Anotar(tablero[1], "extract", res),
                                   LeerRespuesta(res, Texto("Error al analizar")))>>
    /\ Quieto

TrasValidate(t, leido) ==
    IF leido.throws THEN Catch(t, leido.value)
    ELSE IF Data(leido.value).throws THEN Catch(t, Data(leido.value).value)
    ELSE [t EXCEPT !.estado = "COMPLETADO", !.mensaje = Texto("Proceso completado"),
                   !.resultado = Data(leido.value).value,
                   !.pc = "ocioso"]

ResponderValidate ==
    /\ tablero[1].pc = "validate"
    /\ \E res \in RespuestasDe(DataValidate) :
          tablero' = <<TrasValidate(Anotar(tablero[1], "validate", res),
                                    LeerRespuesta(res, Texto("Error en la validacion")))>>
    /\ Quieto

\* the button of reiniciar is shown in the states COMPLETADO and ERROR
reiniciar ==
    /\ tablero[1].estado \in {"COMPLETADO", "ERROR"}
    /\ tablero' = <<[tablero[1] EXCEPT !.archivos = {}, !.estado = "IDLE",
                                       !.mensaje = Texto(""), !.error = Texto(""),
                                       !.resultado = Null]>>
    /\ Quieto

NextTablero ==
    \/ \E tipo \in TipoDoc, valido \in BOOLEAN : handleFileSelect(tipo, valido)
    \/ procesarPago
    \/ ResponderUpload
    \/ ResponderExtract
    \/ ResponderValidate
    \/ reiniciar

SpecTablero == InitTablero /\ [][NextTablero]_vars

(***************************************************************************)
(* The route POST /api/generate and the two document generators.  The      *)
(* body of the request is a package that /api/validate answered, sent on   *)
(* by a client as it is or with its verdict replaced, or a body that is    *)
(* not a package.  A document is modelled by the parts that depend on the  *)
(* verdict: the subject line, the fourth recital and the clauses of the    *)
(* resolution.                                                             *)
(***************************************************************************)
JsonArray(items) == [t |-> "array", items |-> items]

CheckValidacionSchema ==
    [rutCoincide |-> "boolean", montosCoinciden |-> "boolean",
     montoOCSuficiente |-> "boolean", descripcionConsistente |-> "boolean",
     recepcionConforme |-> "boolean", itemPresupuestario |-> "string"]

EstadoValidacionEnum == {Texto("APROBADO"), Texto("REPARO")}

\* JSON.stringify of the validacion of a package, read back by request.json()
ValidacionJson(v) ==
    JsonObject(
        [estado |-> Texto(v.estado),
         checks |-> JsonObject(
             [rutCoincide |-> Bool(v.checks.rutCoincide),
              montosCoinciden |-> Bool(v.checks.montosCoinciden),
              montoOCSuficiente |-> Bool(v.checks.montoOCSuficiente),
              descripcionConsistente |-> Bool(v.checks.descripcionConsistente),
              recepcionConforme |-> Bool(v.checks.recepcionConforme),
              itemPresupuestario |-> v.checks.itemPresupuestario]),
         discrepancias |->
             JsonArray([i \in 1..Len(v.discrepancias) |-> Str(<<v.discrepancias[i]>>)]),
         fechaValidacion |-> Str(<<v.fechaValidacion>>)])

CuerpoGenerar(p) ==
    JsonObject([datosValidados |-> Cuerpo(p.datosValidados),
                validacion |-> ValidacionJson(p.validacion)])

\* the packages of /api/validate for records that pass its schema
PaquetesValidados ==
    {validarYEmpaquetar(
         Completa(Extraccion(r, m, Presente, txt, c)), ahora).value :
        r \in {<<Str(<<"K">>), Str(<<"K">>), Str(<<"K">>)>>,
               <<Str(<<"K">>), Str(<<"K", "-">>), Str(<<"K", "K">>)>>},
        m \in MontosRepresentativos,
        txt \in {TextosPresentes, [TextosPresentes EXCEPT !.numeroOC = Str(<<>>)]},
        c \in {Bool(TRUE), Bool(FALSE)},
        ahora \in Instantes}

EstadoValues == {Texto("APROBADO"), Texto("REPARO"), Texto("PENDIENTE"), Null}

CuerposGenerar ==
    {CuerpoGenerar(p) : p \in PaquetesValidados}
      \cup {[CuerpoGenerar(p) EXCEPT !.campos.validacion.campos.estado = e] :
              p \in PaquetesValidados, e \in EstadoValues}
      \cup {JsonObject([datosValidados |-> Cuerpo(p.datosValidados)]) :
              p \in PaquetesValidados}
      \cup {Undefined, Str(<<"a">>)}

\* the value of the query parameter format: absent, "docx" or "pdf"
FormatoValues == {Null, Texto("docx"), Texto("pdf")}

PeticionesGenerar ==
    {[jsonValido |-> FALSE, formato |-> f, valor |-> Undefined] : f \in FormatoValues}
      \cup {[jsonValido |-> TRUE, formato |-> f, valor |-> v] :
               f \in FormatoValues, v \in CuerposGenerar}

\* ResultadoValidacionSchema accepts the value
ZodResultadoOk(v) ==
    /\ v.t = "object"
    /\ {"estado", "checks", "discrepancias", "fechaValidacion"} \subseteq DOMAIN v.campos
    /\ v.campos.estado \in EstadoValidacionEnum
    /\ ZodObjectOk(v.campos.checks, CheckValidacionSchema)
    /\ v.campos.discrepancias.t = "array"
    /\ \A i \in DOMAIN v.campos.discrepancias.items :
          v.campos.discrepancias.items[i].t = "string"
    /\ v.campos.fechaValidacion.t = "string"

\* GenerateBodySchema.safeParse(body)
safeParseGenerar(body) ==
    IF /\ body.t = "object"
       /\ {"datosValidados", "validacion"} \subseteq DOMAIN body.campos
       /\ safeParse(body.campos.datosValidados).success
       /\ ZodResultadoOk(body.campos.validacion)
    THEN [success |-> TRUE,
          data |-> <<[datosValidados |-> safeParse(body.campos.datosValidados).data[1],
                      validacion |->
                          [estado |-> body.campos.validacion.campos.estado,
                           checks |-> ZodStrip(body.campos.validacion.campos.checks,
                                               CheckValidacionSchema),
                           discrepancias |->
                               body.campos.validacion.campos.discrepancias.items,
                           fechaValidacion |->
                               body.campos.validacion.campos.fechaValidacion]]>>]
    ELSE [success |-> FALSE, data |-> <<>>]

\* validacion.estado === "APROBADO"
esAprobado(validacion) == validacion.estado = Texto("APROBADO")

Clausula(titulo, texto) == [titulo |-> titulo, texto |-> texto]

\* the parts of the document that generarResolucionDOCX and
\* generarResolucionPDF write according to the verdict
Documento(d, validacion) ==
    [materia |-> IF esAprobado(validacion) THEN "Aprueba" ELSE "Observa con reparo",
     considerando4 |->
         IF esAprobado(validacion) THEN [resultado |-> "APROBADA", detectadas |-> 0]
         ELSE [resultado |-> "CON REPARO", detectadas |-> Len(validacion.discrepancias)],
     resuelvo |->
         IF esAprobado(validacion)
         THEN <<Clausula("AUTORIZASE", d.factura.numeroFactura),
                Clausula("IMPUTASE",
                         OrElse(d.ordenCompra.itemPresupuestario,
                                Texto("(no informado)"))),
                Clausula("REMITASE", Texto(""))>>
         ELSE <<Clausula("OBSERVASE CON REPARO", d.factura.numeroFactura)>>
              \o [i \in 1..Len(validacion.discrepancias) |->
                     Clausula("discrepancia", validacion.discrepancias[i])]
              \o <<Clausula("DEVUELVASE", Texto(""))>>]

\* const format = request.nextUrl.searchParams.get("format") || "docx";
\* const esWord = format !== "pdf"
esWord(formato) == OrElse(formato, Texto("docx")) # Texto("pdf")

RespuestaDocumento(formato, documento) ==
    [status |-> 200, success |-> TRUE,
     contentType |-> IF esWord(formato) THEN "docx" ELSE "pdf",
     data |-> <<documento>>]

InitGenerar ==
    /\ ValidacionOciosa
    /\ paquete = <<>>
    /\ conc = <<>>
    /\ pura = <<>>
    /\ ruta = <<>>
    /\ tablero = <<>>
    /\ \E p \in PeticionesGenerar :
          generacion = <<[peticion |-> p, pc |-> "json", body |-> <<>>,
                          data |-> <<>>, respuesta |-> <<>>]>>

QuietoGenerar == UNCHANGED <<varsValidacion, paquete, conc, pura, ruta, tablero>>

\* body = await request.json(), and the 400 of its catch
GenerarLeerJSON ==
    /\ generacion[1].pc = "json"
    /\ generacion' =
          IF generacion[1].peticion.jsonValido
          THEN <<[generacion[1] EXCEPT !.pc = "safeParse",
                                       !.body = <<generacion[1].peticion.valor>>]>>
          ELSE <<Responder(generacion[1], Respuesta400)>>
    /\ QuietoGenerar

\* the schema check and the 400 of its failure
GenerarSafeParse ==
    /\ generacion[1].pc = "safeParse"
    /\ generacion' =
          IF ~safeParseGenerar(generacion[1].body[1]).success
          THEN <<Responder(generacion[1], Respuesta400)>>
          ELSE <<[generacion[1] EXCEPT
                     !.pc = "generar",
                     !.data = safeParseGenerar(generacion[1].body[1]).data]>>
    /\ QuietoGenerar

\* the generator of the requested format and the answer with the document
GenerarDocumento ==
    /\ generacion[1].pc = "generar"
    /\ generacion' =
          <<Responder(generacion[1],
                      RespuestaDocumento(
                          generacion[1].peticion.formato,
                          Documento(generacion[1].data[1].datosValidados,
                                    generacion[1].data[1].validacion)))>>
    /\ QuietoGenerar

NextGenerar ==
    \/ GenerarLeerJSON
    \/ GenerarSafeParse
    \/ GenerarDocumento

SpecGenerar == InitGenerar /\ [][NextGenerar]_vars

(***************************************************************************)
(* Vocabulary of the properties.                                           *)
(***************************************************************************)
Retorno == pc = "return"
R == resultado[1]

\* the normalized identifiers and totals of the call's input
RutF == normalizarRUT(datos.factura.rutProveedor).value
RutO == normalizarRUT(datos.ordenCompra.rutProveedor).value
RutA == normalizarRUT(datos.actaRecepcion.rutProveedor).value
MontoF == limpiarMonto(datos.factura.montoTotal)
MontoO == limpiarMonto(datos.ordenCompra.montoTotal)
MontoR == limpiarMonto(datos.actaRecepcion.montoRecepcionado)

\* a value that is missing, empty or blank, stated without tieneDato
EnBlanco(v) ==
    \/ v.t \in {"undefined", "null"}
    \/ v.t = "string" /\ \A i \in 1..Len(v.s) : v.s[i] \in Whitespace

\* the seven required texts other than the order number
OtrosTextosPresentes ==
    /\ ~EnBlanco(datos.ordenCompra.itemPresupuestario)
    /\ ~EnBlanco(datos.factura.numeroFactura)
    /\ ~EnBlanco(datos.actaRecepcion.numeroActa)
    /\ ~EnBlanco(datos.factura.descripcionServicio)
    /\ ~EnBlanco(datos.factura.razonSocial)
    /\ ~EnBlanco(datos.factura.fechaEmision)
    /\ ~EnBlanco(datos.actaRecepcion.fechaRecepcion)

OchoCamposPresentes == OtrosTextosPresentes /\ ~EnBlanco(datos.ordenCompra.numeroOC)

RutsPresentes == RutF # <<>> /\ RutO # <<>> /\ RutA # <<>>
RutsIguales == RutsPresentes /\ RutF = RutO /\ RutF = RutA

MontosValidos == ~MontoF.nan /\ ~MontoO.nan /\ ~MontoR.nan
\* invoice total = receipt total and invoice total <= order total
MontosConsistentes ==
    /\ MontosValidos
    /\ MontoF.num * MontoR.den = MontoR.num * MontoF.den
    /\ MontoF.num * MontoO.den <= MontoO.num * MontoF.den

EsConforme == datos.actaRecepcion.conforme = Bool(TRUE)

Veces(seq, m) == Cardinality({i \in 1..Len(seq) : seq[i] = m})

IsPrefix(s, t) == Len(s) <= Len(t) /\ SubSeq(t, 1, Len(s)) = s

CincoChecks(c) ==
    <<c.rutCoincide, c.montosCoinciden, c.montoOCSuficiente,
      c.descripcionConsistente, c.recepcionConforme>>

(***************************************************************************)
(* Properties of validarResolucion.                                        *)
(***************************************************************************)

\* C1: in every result, estado is APROBADO exactly when the discrepancy list
\* of the result is empty and REPARO otherwise; the list of the result is the
\* list the rules filled.
C1_EstadoDerivado ==
    Retorno =>
        /\ R.discrepancias = discrepancias
        /\ R.estado \in {"APROBADO", "REPARO"}
        /\ (R.estado = "APROBADO") <=> (R.discrepancias = <<>>)
        /\ (R.estado = "REPARO") <=> (Len(R.discrepancias) > 0)

C1_Witness ==
    /\ Retorno
    /\ R.estado = "REPARO"
    /\ Len(R.discrepancias) = 1

\* C2: for every input whose scalar fields are of the expected type, empty
\* or missing, the call never raises, reaches the construction of the result
\* with every rule's value assigned, and returns a complete result: a verdict, the five boolean checks with the
\* echoed budget item, the discrepancy list and the timestamp.
C2_SiempreRetorna ==
    /\ pc # "throw"
    /\ pc \in {"validarRUT", "validarMontos", "validarIntegridad",
              "construirResultado", "return"}
    /\ (pc = "construirResultado") =>
          (Len(rutCoincide) = 1 /\ Len(montos) = 1 /\ Len(integridad) = 1)
    /\ Retorno =>
          /\ Len(resultado) = 1
          /\ R.estado \in {"APROBADO", "REPARO"}
          /\ \A i \in 1..5 : CincoChecks(R.checks)[i] \in BOOLEAN
          /\ R.checks.itemPresupuestario.t = "string"
          /\ DOMAIN R.discrepancias = 1..Len(R.discrepancias)
          /\ R.fechaValidacion \in Instantes

C2_Witness ==
    /\ Retorno
    /\ datos.factura.rutProveedor = Undefined
    /\ datos.ordenCompra.numeroOC = Undefined
    /\ datos.actaRecepcion.conforme = Bool(FALSE)
    /\ Len(resultado) = 1

\* C3: the identity rule, the amount rules and the integrity rule run once
\* each, in that order, whatever the earlier rules returned, then the result
\* is built and returned; the final list is the identity discrepancies of the
\* input, then its amount discrepancies, then its integrity discrepancies,
\* each as the rule emits them on its own.
C3_TodasLasReglas ==
    /\ [][/\ pc = "validarRUT" => pc' = "validarMontos"
          /\ pc = "validarMontos" => pc' = "validarIntegridad"
          /\ pc = "validarIntegridad" => pc' = "construirResultado"
          /\ pc = "construirResultado" => pc' = "return"
          /\ pc # "return"]_vars
    /\ [](/\ (pc = "validarRUT") => (rutCoincide = <<>> /\ montos = <<>> /\ integridad = <<>>)
          /\ (pc = "validarMontos") => (Len(rutCoincide) = 1 /\ montos = <<>> /\ integridad = <<>>)
          /\ (pc = "validarIntegridad") => (Len(montos) = 1 /\ integridad = <<>>)
          /\ Retorno =>
               R.discrepancias = validarRUT(datos, <<>>).discrepancias
                                 \o validarMontos(datos, <<>>).discrepancias
                                 \o validarIntegridad(datos, <<>>).discrepancias)

C3_Witness ==
    /\ Retorno
    /\ ~RutsPresentes
    /\ R.checks.rutCoincide = FALSE
    /\ Len(validarMontos(datos, <<>>).discrepancias) > 0
    /\ Len(validarIntegridad(datos, <<>>).discrepancias) > 0
    /\ Len(R.discrepancias) >= 3

\* C4: when the three identifiers are present and normalize to the same
\* string, the invoice total equals the receipt total and does not exceed
\* the order total, conforme is true and the eight required fields are
\* present, the result is APROBADO with no discrepancy and five true checks.
C4_EscenarioA ==
    (Retorno /\ RutsIguales /\ MontosConsistentes /\ EsConforme /\ OchoCamposPresentes) =>
        /\ R.estado = "APROBADO"
        /\ R.discrepancias = <<>>
        /\ CincoChecks(R.checks) = <<TRUE, TRUE, TRUE, TRUE, TRUE>>

C4_Witness ==
    /\ Retorno /\ RutsIguales /\ MontosConsistentes /\ EsConforme /\ OchoCamposPresentes
    /\ datos.factura.rutProveedor # datos.ordenCompra.rutProveedor
    /\ R.estado = "APROBADO"

\* the rule a discrepancy comes from: 1 identity, 2 amounts, 3 integrity
Categoria(m) ==
    IF m.id \in {MsgFaltaRUT.id, MsgRutFacturaOC(Undefined, Undefined).id,
                 MsgRutFacturaActa(Undefined, Undefined).id,
                 MsgRutOCActa(Undefined, Undefined).id}
    THEN 1
    ELSE IF m.id \in {MsgMontoFacturaInvalido.id, MsgMontoOCInvalido.id,
                      MsgMontoRecepcionInvalido.id, MsgExcedeOC(NaN, NaN).id,
                      MsgExcedeRecepcion(NaN, NaN).id,
                      MsgNoCoincideRecepcion(NaN, NaN).id}
    THEN 2
    ELSE 3

Contiene(seq, m) == \E i \in 1..Len(seq) : seq[i] = m

\* the premise of scenario B: the invoice identifier differs from the order
\* identifier, and nothing else is wrong
PremisaB ==
    /\ Retorno /\ RutsPresentes /\ RutF # RutO
    /\ MontosConsistentes /\ EsConforme /\ OchoCamposPresentes

\* C5 as stated: under the premise of scenario B the result is REPARO with
\* exactly one identity discrepancy, the invoice-order one, rutCoincide false
\* and the other four checks true.
C5_EscenarioB_Original ==
    PremisaB =>
        /\ R.estado = "REPARO"
        /\ Cardinality({i \in 1..Len(R.discrepancias) :
                            Categoria(R.discrepancias[i]) = 1}) = 1
        /\ Contiene(R.discrepancias,
                    MsgRutFacturaOC(datos.factura.rutProveedor,
                                    datos.ordenCompra.rutProveedor))
        /\ CincoChecks(R.checks) = <<FALSE, TRUE, TRUE, TRUE, TRUE>>

\* C5 amended: under the premise of scenario B the result is REPARO, its
\* discrepancies are identity discrepancies only, the invoice-order one first,
\* followed by the invoice-receipt one when the receipt identifier differs
\* from the invoice's and by the order-receipt one when it differs from the
\* order's (two or three messages in all); rutCoincide is false and the other
\* four checks are true.
C5_EscenarioB ==
    PremisaB =>
        /\ R.estado = "REPARO"
        /\ R.discrepancias =
              <<MsgRutFacturaOC(datos.factura.rutProveedor,
                                datos.ordenCompra.rutProveedor)>>
              \o (IF RutF # RutA
                  THEN <<MsgRutFacturaActa(datos.factura.rutProveedor,
                                           datos.actaRecepcion.rutProveedor)>>
                  ELSE <<>>)
              \o (IF RutO # RutA
                  THEN <<MsgRutOCActa(datos.ordenCompra.rutProveedor,
                                      datos.actaRecepcion.rutProveedor)>>
                  ELSE <<>>)
        /\ Len(R.discrepancias) \in {2, 3}
        /\ CincoChecks(R.checks) = <<FALSE, TRUE, TRUE, TRUE, TRUE>>

C5_Witness ==
    /\ PremisaB
    /\ RutA = RutF
    /\ Len(R.discrepancias) = 2

\* C6: when the three totals are valid numbers, montoOCSuficiente is false
\* exactly when the invoice total is strictly greater than the order total,
\* and then exactly one sufficiency discrepancy, citing both totals, is in the
\* list (none otherwise); montosCoinciden is decided by invoice = receipt
\* alone, whatever the order total.
C6_Suficiencia ==
    (Retorno /\ MontosValidos) =>
        LET excede == MontoF.num * MontoO.den > MontoO.num * MontoF.den
        IN  /\ R.checks.montoOCSuficiente = ~excede
            /\ Veces(R.discrepancias, MsgExcedeOC(MontoF, MontoO))
                  = (IF excede THEN 1 ELSE 0)
            /\ Cardinality({i \in 1..Len(R.discrepancias) :
                    R.discrepancias[i].id = MsgExcedeOC(MontoF, MontoO).id})
                  = (IF excede THEN 1 ELSE 0)
            /\ R.checks.montosCoinciden
                  = (MontoF.num * MontoR.den = MontoR.num * MontoF.den)

C6_Witness ==
    /\ Retorno /\ MontosValidos
    /\ MontoF.num * MontoO.den > MontoO.num * MontoF.den
    /\ MontoF.num * MontoR.den = MontoR.num * MontoF.den
    /\ R.checks.montoOCSuficiente = FALSE
    /\ R.checks.montosCoinciden = TRUE

\* C7: recepcionConforme is true exactly when conforme is the boolean true;
\* for any other value the non-conformity discrepancy is in the list exactly
\* once, and when that is the only defect the result is REPARO with that one
\* discrepancy and the other four checks true.
C7_RecepcionConforme ==
    Retorno =>
        /\ R.checks.recepcionConforme = EsConforme
        /\ Veces(R.discrepancias, MsgNoConforme) = (IF EsConforme THEN 0 ELSE 1)
        /\ (~EsConforme /\ RutsIguales /\ MontosConsistentes /\ OchoCamposPresentes) =>
              /\ R.estado = "REPARO"
              /\ R.discrepancias = <<MsgNoConforme>>
              /\ CincoChecks(R.checks) = <<TRUE, TRUE, TRUE, TRUE, FALSE>>

C7_Witness ==
    /\ Retorno
    /\ datos.actaRecepcion.conforme.t = "string"
    /\ RutsIguales /\ MontosConsistentes /\ OchoCamposPresentes
    /\ R.discrepancias = <<MsgNoConforme>>

\* the premise of scenario E: the order number is missing, all else is valid
PremisaE ==
    /\ Retorno /\ EnBlanco(datos.ordenCompra.numeroOC)
    /\ RutsIguales /\ MontosConsistentes /\ EsConforme /\ OtrosTextosPresentes

\* C8: when the order number is missing and everything else is valid, the
\* result is REPARO with the missing-order-number discrepancy alone, and
\* rutCoincide, montosCoinciden and montoOCSuficiente are what the rules
\* return for the same input with the order number present: all true.
C8_EscenarioE ==
    PremisaE =>
        LET conOC == [datos EXCEPT !.ordenCompra.numeroOC = Presente]
        IN  /\ R.estado = "REPARO"
            /\ R.discrepancias = <<MsgFaltaNumeroOC>>
            /\ R.checks.rutCoincide = validarRUT(conOC, <<>>).ret
            /\ R.checks.montosCoinciden = validarMontos(conOC, <<>>).montosCoinciden
            /\ R.checks.montoOCSuficiente = validarMontos(conOC, <<>>).montoOCSuficiente
            /\ R.checks.rutCoincide /\ R.checks.montosCoinciden
            /\ R.checks.montoOCSuficiente

C8_Witness ==
    /\ PremisaE
    /\ datos.ordenCompra.numeroOC = Undefined
    /\ R.discrepancias = <<MsgFaltaNumeroOC>>

\* the data-quality problems the engine detects
FaltaIdentificador == ~RutsPresentes
MontoNoParseable == MontoF.nan \/ MontoO.nan \/ MontoR.nan
FaltaCampo == ~OchoCamposPresentes
HayProblema == FaltaIdentificador \/ MontoNoParseable \/ FaltaCampo \/ ~EsConforme

\* C9 as stated: every data-quality problem (a missing identifier, an
\* unparseable amount, a missing required field, a non-conforming receipt)
\* produces a discrepancy and at least one false check in the same result.
C9_ProblemaYFlag_Original ==
    (Retorno /\ HayProblema) =>
        /\ Len(R.discrepancias) > 0
        /\ \E i \in 1..5 : CincoChecks(R.checks)[i] = FALSE

\* C9 amended: every data-quality problem produces its discrepancy; a missing
\* identifier, an unparseable amount, a missing invoice description and a
\* non-conforming receipt also set a check false (rutCoincide; montosCoinciden
\* for the invoice and receipt totals, montoOCSuficiente for the order total;
\* descripcionConsistente; recepcionConforme), while a missing budget item,
\* document number, counterparty name or date sets no check false.
C9_ProblemaYFlag ==
    Retorno =>
        /\ FaltaIdentificador =>
              (Contiene(R.discrepancias, MsgFaltaRUT) /\ ~R.checks.rutCoincide)
        /\ MontoF.nan =>
              (Contiene(R.discrepancias, MsgMontoFacturaInvalido)
               /\ ~R.checks.montosCoinciden)
        /\ MontoO.nan =>
              (Contiene(R.discrepancias, MsgMontoOCInvalido)
               /\ ~R.checks.montoOCSuficiente)
        /\ MontoR.nan =>
              (Contiene(R.discrepancias, MsgMontoRecepcionInvalido)
               /\ ~R.checks.montosCoinciden)
        /\ ~EsConforme =>
              (Contiene(R.discrepancias, MsgNoConforme) /\ ~R.checks.recepcionConforme)
        /\ EnBlanco(datos.factura.descripcionServicio) =>
              (Contiene(R.discrepancias, MsgFaltaDescripcion)
               /\ ~R.checks.descripcionConsistente)
        /\ EnBlanco(datos.ordenCompra.itemPresupuestario) =>
              Contiene(R.discrepancias, MsgFaltaItem)
        /\ EnBlanco(datos.factura.numeroFactura) =>
              Contiene(R.discrepancias, MsgFaltaNumeroFactura)
        /\ EnBlanco(datos.ordenCompra.numeroOC) =>
              Contiene(R.discrepancias, MsgFaltaNumeroOC)
        /\ EnBlanco(datos.actaRecepcion.numeroActa) =>
              Contiene(R.discrepancias, MsgFaltaNumeroActa)
        /\ EnBlanco(datos.factura.razonSocial) =>
              Contiene(R.discrepancias, MsgFaltaRazonSocial)
        /\ EnBlanco(datos.factura.fechaEmision) =>
              Contiene(R.discrepancias, MsgFaltaFechaEmision)
        /\ EnBlanco(datos.actaRecepcion.fechaRecepcion) =>
              Contiene(R.discrepancias, MsgFaltaFechaRecepcion)
        /\ (/\ RutsIguales /\ MontosConsistentes /\ EsConforme
            /\ ~EnBlanco(datos.factura.descripcionServicio)) =>
              CincoChecks(R.checks) = <<TRUE, TRUE, TRUE, TRUE, TRUE>>

C9_Witness ==
    /\ Retorno
    /\ RutsIguales /\ MontosConsistentes /\ EsConforme
    /\ EnBlanco(datos.factura.numeroFactura)
    /\ EnBlanco(datos.factura.descripcionServicio)
    /\ Contiene(R.discrepancias, MsgFaltaNumeroFactura)
    /\ CincoChecks(R.checks) = <<TRUE, TRUE, TRUE, FALSE, TRUE>>

\* C10: the discrepancy list only grows at its end: every step leaves the
\* list it found as a prefix of the list it leaves, and in every result the
\* identity discrepancies come before the amount discrepancies, which come
\* before the integrity discrepancies.
C10_SoloAgrega ==
    /\ [][IsPrefix(discrepancias, discrepancias')]_vars
    /\ [](Retorno =>
            /\ IsPrefix(validarRUT(datos, <<>>).discrepancias, R.discrepancias)
            /\ \A i \in 1..Len(R.discrepancias) : \A j \in i..Len(R.discrepancias) :
                  Categoria(R.discrepancias[i]) <= Categoria(R.discrepancias[j]))

C10_Witness ==
    /\ Retorno
    /\ \A k \in 1..3 : \E i \in 1..Len(R.discrepancias) :
          Categoria(R.discrepancias[i]) = k
    /\ Len(R.discrepancias) >= 5

\* C11: no step of validarResolucion or of validarYEmpaquetar changes a
\* field of the three input records, and the datosValidados that
\* validarYEmpaquetar returns is the input it received, with the result of
\* validarResolucion beside it.
C11_EntradaIntacta ==
    /\ [][datos' = datos]_vars
    /\ [](paquete # <<>> =>
            /\ paquete[1].datosValidados = datos
            /\ paquete[1].validacion = R
            /\ datos \in Entradas)

C11_Witness ==
    /\ paquete # <<>>
    /\ paquete[1].datosValidados.factura.rutProveedor = Str(<<"K", "-">>)
    /\ paquete[1].datosValidados.ordenCompra.numeroOC = Undefined
    /\ paquete[1].validacion.estado = "REPARO"

\* what call c returned, its discrepancy array read through its reference,
\* without the timestamp
Devuelto(c) ==
    LET k == conc[1]
        r == k.resultado[c][1]
    IN  [estado |-> r.estado, checks |-> r.checks,
         discrepancias |-> k.heap[r.discrepancias]]

SinFecha(r) ==
    [estado |-> r.estado, checks |-> r.checks, discrepancias |-> r.discrepancias]

\* C12: whatever the interleaving of the calls in flight and whatever ran
\* before, what a call has returned is, timestamp aside, the function of its
\* own input alone, now and for as long as other calls keep running: two
\* calls on the same triple return the same verdict, checks and discrepancy
\* list, and no list holds a message of another call's input.
C12_SinEstadoCompartido ==
    conc # <<>> =>
        \A c \in Llamadas :
            conc[1].pc[c] = "return" =>
                /\ Devuelto(c) = SinFecha(validarResolucion(conc[1].datos[c], 0).value)
                /\ \A e \in Llamadas :
                      (conc[1].pc[e] = "return" /\ conc[1].datos[e] = conc[1].datos[c])
                          => Devuelto(e) = Devuelto(c)

C12_Witness ==
    /\ conc # <<>>
    /\ conc[1].pc[1] = "return"
    /\ conc[1].pc[2] = "validarIntegridad"
    /\ conc[1].datos[1] # conc[1].datos[2]
    /\ Len(Devuelto(1).discrepancias) > 0
    /\ Len(conc[1].heap[conc[1].lista[2]]) > 0

\* C13: normalizing a normal form gives the same normal form, and an
\* identifier rewritten with dots, hyphens or whitespace inserted anywhere
\* and with letters in the other case has the normal form of the identifier
\* as first written; "76.123.456-7" and "76123456-7" both give "761234567".
C13_NormalizarIdempotente ==
    pura # <<>> =>
        LET p == pura[1]
        IN  /\ p.salida # <<>> =>
                  /\ ~p.salida[1].throws
                  /\ p.salida[1].value = normalizarRUT(Str(p.x)).value
                  /\ (p.x \in RutEjemplos /\ p.x[Len(p.x)] = "7") =>
                        p.salida[1].value = <<"7", "6", "1", "2", "3", "4", "5", "6", "7">>
                  /\ (p.x \in RutEjemplos /\ p.x[Len(p.x)] = "K") =>
                        p.salida[1].value = <<"7", "6", "1", "2", "3", "4", "5", "6", "k">>
            /\ p.doble # <<>> => p.doble[1] = p.salida[1]

C13_Witness ==
    /\ pura # <<>>
    /\ pura[1].x = <<"7", "K">>
    /\ pura[1].y = <<"7", "-", "k">>
    /\ pura[1].doble # <<>>
    /\ pura[1].doble[1].value = <<"7", "k">>

\* what is left of a string amount without currency symbols, whitespace and
\* thousands dots
SinAdornos(str) == RemoveChars(str, {"$", "."} \cup Whitespace)

SoloDigitos(str) == str # <<>> /\ \A i \in 1..Len(str) : str[i] \in Digits

Comas(str) == {i \in 1..Len(str) : str[i] = ","}

Vale(n, num, den) == /\ n.t = "number"
                     /\ ~n.nan
                     /\ n.num * den = num * n.den

C15_RutaValidate ==
    ruta # <<>> =>
        LET r == ruta[1]
            pasa == r.peticion.jsonValido /\ safeParse(r.peticion.valor).success
        IN  /\ r.llamadas # <<>> =>
                  /\ pasa
                  /\ r.llamadas = safeParse(r.peticion.valor).data
                  /\ r.respuesta # <<>>
            /\ (r.respuesta # <<>> /\ r.llamadas = <<>>) =>
                  /\ ~pasa
                  /\ r.respuesta[1] = [status |-> 400, success |-> FALSE, data |-> <<>>]
            /\ (r.respuesta # <<>> /\ r.llamadas # <<>>) =>
                  /\ r.respuesta[1].status = 200
                  /\ r.respuesta[1].success = TRUE
                  /\ r.respuesta[1].data # <<>>
                  /\ r.respuesta[1].data[1].datosValidados = r.llamadas[1]
                  /\ r.respuesta[1].data[1].validacion.estado \in {"APROBADO", "REPARO"}
                  /\ r.respuesta[1].data[1].validacion.estado = "APROBADO"
                        <=> r.respuesta[1].data[1].validacion.discrepancias = <<>>
            /\ r.pc = "fin" <=> r.respuesta # <<>>

C15_Witness ==
    /\ ruta # <<>>
    /\ ruta[1].respuesta # <<>>
    /\ ruta[1].respuesta[1].status = 200
    /\ ruta[1].respuesta[1].success
    /\ ruta[1].respuesta[1].data[1].validacion.estado = "REPARO"
    /\ Len(ruta[1].llamadas) = 1

\* C16: a total that is not a number takes only itself out of the
\* comparisons: with the order total invalid and the invoice and receipt
\* totals valid and different, montosCoinciden is false and the
\* invoice-versus-receipt discrepancy is in the list; with the receipt total
\* invalid and the invoice total above the order total, montoOCSuficiente is
\* false and the invoice-versus-order discrepancy is in the list.
C16_ComparaLosValidos ==
    Retorno =>
        /\ (isNaN(MontoO) /\ ~isNaN(MontoF) /\ ~isNaN(MontoR) /\ ~NumEq(MontoF, MontoR)) =>
              /\ R.checks.montosCoinciden = FALSE
              /\ Contiene(R.discrepancias, MsgNoCoincideRecepcion(MontoF, MontoR))
        /\ (isNaN(MontoR) /\ ~isNaN(MontoF) /\ ~isNaN(MontoO) /\ NumGt(MontoF, MontoO)) =>
              /\ R.checks.montoOCSuficiente = FALSE
              /\ Contiene(R.discrepancias, MsgExcedeOC(MontoF, MontoO))

\* the order total is not a number, the invoice total 2 and the receipt total
\* 1 are: the result says that the amounts coincide
C16_Witness ==
    /\ Retorno
    /\ isNaN(MontoO)
    /\ MontoF = Num(2)
    /\ MontoR = Num(1)
    /\ R.checks.montosCoinciden = TRUE
    /\ ~Contiene(R.discrepancias, MsgNoCoincideRecepcion(MontoF, MontoR))
    /\ ~Contiene(R.discrepancias, MsgExcedeRecepcion(MontoF, MontoR))
    /\ Contiene(R.discrepancias, MsgMontoOCInvalido)

\* C17: each total that is not a number puts exactly one discrepancy naming
\* it in the list and makes every check that reads it false: the invoice
\* total both montosCoinciden and montoOCSuficiente, the order total
\* montoOCSuficiente, the receipt total montosCoinciden.
C17_ChecksDependientes ==
    Retorno =>
        /\ Veces(R.discrepancias, MsgMontoFacturaInvalido) = (IF isNaN(MontoF) THEN 1 ELSE 0)
        /\ Veces(R.discrepancias, MsgMontoOCInvalido) = (IF isNaN(MontoO) THEN 1 ELSE 0)
        /\ Veces(R.discrepancias, MsgMontoRecepcionInvalido) = (IF isNaN(MontoR) THEN 1 ELSE 0)
        /\ isNaN(MontoF) => (~R.checks.montosCoinciden /\ ~R.checks.montoOCSuficiente)
        /\ isNaN(MontoO) => ~R.checks.montoOCSuficiente
        /\ isNaN(MontoR) => ~R.checks.montosCoinciden

\* the invoice total is not a number, the order and receipt totals are: the
\* result says that the order covers the invoice
C17_Witness ==
    /\ Retorno
    /\ isNaN(MontoF)
    /\ ~isNaN(MontoO)
    /\ ~isNaN(MontoR)
    /\ R.checks.montoOCSuficiente = TRUE
    /\ R.checks.montosCoinciden = FALSE
    /\ Veces(R.discrepancias, MsgMontoFacturaInvalido) = 1

VecesId(seq, id) == Cardinality({i \in 1..Len(seq) : seq[i].id = id})

Seguidos(seq, m1, m2) ==
    \E i \in 1..(Len(seq) - 1) : seq[i] = m1 /\ seq[i + 1] = m2

DeIdentidad(seq) == SelectSeq(seq, LAMBDA m : Categoria(m) = 1)

\* C19: when at least one of the three identifiers normalizes to the empty
\* string, the list holds exactly one missing-identifier discrepancy, first
\* in the list, and no pairwise mismatch message, and rutCoincide is false,
\* also when the three normal forms are all empty.
C19_IdentificadorAusente ==
    (Retorno /\ ~RutsPresentes) =>
        /\ DeIdentidad(R.discrepancias) = <<MsgFaltaRUT>>
        /\ R.discrepancias[1] = MsgFaltaRUT
        /\ R.checks.rutCoincide = FALSE

C19_Witness ==
    /\ Retorno
    /\ datos.factura.rutProveedor = Undefined
    /\ datos.ordenCompra.rutProveedor = Str(<<"-">>)
    /\ datos.actaRecepcion.rutProveedor = Str(<<".", " ">>)
    /\ RutF = RutO
    /\ RutO = RutA
    /\ ~R.checks.rutCoincide
    /\ Veces(R.discrepancias, MsgFaltaRUT) = 1

ParesEsperados ==
    (IF RutF # RutO
     THEN <<MsgRutFacturaOC(datos.factura.rutProveedor, datos.ordenCompra.rutProveedor)>>
     ELSE <<>>)
    \o (IF RutF # RutA
        THEN <<MsgRutFacturaActa(datos.factura.rutProveedor,
                                 datos.actaRecepcion.rutProveedor)>>
        ELSE <<>>)
    \o (IF RutO # RutA
        THEN <<MsgRutOCActa(datos.ordenCompra.rutProveedor,
                            datos.actaRecepcion.rutProveedor)>>
        ELSE <<>>)

\* C20: when the three identifiers are present, the discrepancies of the
\* identity rule are, at the head of the list and in this order, one for the
\* invoice-order pair, one for the invoice-receipt pair and one for the
\* order-receipt pair, each present exactly when the normal forms of its pair
\* differ and each naming the two identifiers as written in the documents;
\* rutCoincide is true exactly when the three normal forms are one string.
C20_ParesDeIdentificadores ==
    (Retorno /\ RutsPresentes) =>
        /\ DeIdentidad(R.discrepancias) = ParesEsperados
        /\ IsPrefix(ParesEsperados, R.discrepancias)
        /\ R.checks.rutCoincide <=> (RutF = RutO /\ RutF = RutA /\ RutO = RutA)

C20_Witness ==
    /\ Retorno
    /\ datos.factura.rutProveedor = Str(<<"K">>)
    /\ datos.ordenCompra.rutProveedor = Str(<<"K", "K">>)
    /\ datos.actaRecepcion.rutProveedor = Str(<<"7">>)
    /\ Len(ParesEsperados) = 3
    /\ SubSeq(R.discrepancias, 1, 3) =
          <<MsgRutFacturaOC(Str(<<"K">>), Str(<<"K", "K">>)),
            MsgRutFacturaActa(Str(<<"K">>), Str(<<"7">>)),
            MsgRutOCActa(Str(<<"K", "K">>), Str(<<"7">>))>>
    /\ ~R.checks.rutCoincide

\* the messages of the list that are m, as a count that is 1 when the field
\* v is null, undefined, empty or blank and 0 when it is present
UnoSiEnBlanco(v, m) == Veces(R.discrepancias, m) = (IF EnBlanco(v) THEN 1 ELSE 0)

\* C21: for each of the eight required fields the list holds its
\* missing-field discrepancy exactly once when the field is null, undefined,
\* empty or whitespace-only and not at all when the field is present,
\* whatever the other seven fields are.
C21_UnMensajePorCampo ==
    Retorno =>
        /\ UnoSiEnBlanco(datos.ordenCompra.itemPresupuestario, MsgFaltaItem)
        /\ UnoSiEnBlanco(datos.factura.numeroFactura, MsgFaltaNumeroFactura)
        /\ UnoSiEnBlanco(datos.ordenCompra.numeroOC, MsgFaltaNumeroOC)
        /\ UnoSiEnBlanco(datos.actaRecepcion.numeroActa, MsgFaltaNumeroActa)
        /\ UnoSiEnBlanco(datos.factura.razonSocial, MsgFaltaRazonSocial)
        /\ UnoSiEnBlanco(datos.factura.fechaEmision, MsgFaltaFechaEmision)
        /\ UnoSiEnBlanco(datos.actaRecepcion.fechaRecepcion, MsgFaltaFechaRecepcion)
        /\ UnoSiEnBlanco(datos.factura.descripcionServicio, MsgFaltaDescripcion)

C21_Witness ==
    /\ Retorno
    /\ datos.factura.descripcionServicio = Undefined
    /\ datos.factura.razonSocial = Str(<<" ">>)
    /\ datos.factura.fechaEmision = Presente
    /\ datos.ordenCompra.itemPresupuestario = Str(<<>>)
    /\ Veces(R.discrepancias, MsgFaltaDescripcion) = 1
    /\ Veces(R.discrepancias, MsgFaltaRazonSocial) = 1
    /\ Veces(R.discrepancias, MsgFaltaItem) = 1
    /\ Veces(R.discrepancias, MsgFaltaFechaEmision) = 0

\* C22: descripcionConsistente is false exactly when the description of the
\* invoice is null, undefined, empty or whitespace-only; a record that
\* differs from another only in the description of the order or of the
\* receipt gets the same estado, the same checks and the same discrepancies.
C22_SoloDescripcionDeFactura ==
    pura # <<>> =>
        LET p == pura[1]
        IN  /\ p.antes # <<>> =>
                  /\ ~p.antes[1].throws
                  /\ p.antes[1].value.checks.descripcionConsistente
                        <=> ~EnBlanco(p.d.factura.descripcionServicio)
            /\ p.despues # <<>> =>
                  /\ ~p.despues[1].throws
                  /\ SinFecha(p.despues[1].value) = SinFecha(p.antes[1].value)

C22_Witness ==
    /\ pura # <<>>
    /\ pura[1].despues # <<>>
    /\ pura[1].d.factura.descripcionServicio = Presente
    /\ pura[1].e.ordenCompra.descripcion = Str(<<"b">>)
    /\ pura[1].e.actaRecepcion.descripcion = Undefined
    /\ pura[1].despues[1].value.checks.descripcionConsistente
    /\ pura[1].despues[1].value.estado = "APROBADO"

Mayusculas == {"K", "A", "B"}
SignosDePuntuacion == {".", "-", ",", "/", "_"}

SinNumero(v) ==
    /\ v.t = "string"
    /\ \A i \in 1..Len(v.s) : v.s[i] \in {"$", ".", ","} \cup Whitespace

\* C24: a string amount that holds no number (the empty string, whitespace,
\* a lone currency symbol, lone separators) is given NaN by limpiarMonto,
\* never the number 0.
C24_SinNumeroEsNaN ==
    (pura # <<>> /\ pura[1].salida # <<>> /\ SinNumero(pura[1].y)) =>
        isNaN(pura[1].salida[1])

\* the amount "$" is given the number 0
C24_Witness ==
    /\ pura # <<>>
    /\ pura[1].y = Str(<<"$">>)
    /\ pura[1].salida = <<Num(0)>>

\* the budget item a result echoes, stated without ||
EcoEsperado(item) ==
    IF item.t = "string" /\ Len(item.s) > 0 THEN item ELSE NoInformado

\* C25: the budget item of the checks is the order's itemPresupuestario when
\* that is a non-empty string and "(No informado)" when it is empty, null or
\* undefined; a record that differs from another only in the budget item
\* gets the same five boolean checks.
C25_EcoDelItem ==
    pura # <<>> =>
        LET p == pura[1]
        IN  /\ p.antes # <<>> =>
                  /\ ~p.antes[1].throws
                  /\ p.antes[1].value.checks.itemPresupuestario
                        = EcoEsperado(p.d.ordenCompra.itemPresupuestario)
            /\ p.despues # <<>> =>
                  /\ ~p.despues[1].throws
                  /\ p.despues[1].value.checks.itemPresupuestario
                        = EcoEsperado(p.e.ordenCompra.itemPresupuestario)
                  /\ CincoChecks(p.despues[1].value.checks)
                        = CincoChecks(p.antes[1].value.checks)

C25_Witness ==
    /\ pura # <<>>
    /\ pura[1].despues # <<>>
    /\ pura[1].d.ordenCompra.itemPresupuestario = Presente
    /\ pura[1].e.ordenCompra.itemPresupuestario = Null
    /\ pura[1].antes[1].value.checks.itemPresupuestario = Presente
    /\ pura[1].despues[1].value.checks.itemPresupuestario = NoInformado
    /\ pura[1].antes[1].value.estado = "APROBADO"
    /\ pura[1].despues[1].value.estado = "REPARO"

\* C30: a result whose list holds the missing-budget-item discrepancy echoes
\* "(No informado)" as its budget item, and the presence test of the rule and
\* the truthiness test of the echo give the same answer on the budget item,
\* whitespace-only strings included.
C30_EcoYMensajeDeAcuerdo ==
    Retorno =>
        /\ Contiene(R.discrepancias, MsgFaltaItem) =>
              R.checks.itemPresupuestario = NoInformado
        /\ tieneDato(datos.ordenCompra.itemPresupuestario)
              <=> Truthy(datos.ordenCompra.itemPresupuestario)

\* the budget item " " is reported missing and echoed as " "
C30_Witness ==
    /\ Retorno
    /\ datos.ordenCompra.itemPresupuestario = Str(<<" ">>)
    /\ Contiene(R.discrepancias, MsgFaltaItem)
    /\ R.checks.itemPresupuestario = Str(<<" ">>)


Pagina == tablero[1]

Emitida(p) == \E i \in DOMAIN Pagina.peticiones : Pagina.peticiones[i] = p

RespondioOk(p) ==
    \E i \in DOMAIN Pagina.respuestas :
        Pagina.respuestas[i] = [de |-> p, ok |-> TRUE]

\* the step consumes an answer that is a rejection or is not OK
FallaUnPaso ==
    /\ Len(Pagina'.respuestas) = Len(Pagina.respuestas) + 1
    /\ ~Pagina'.respuestas[Len(Pagina'.respuestas)].ok

\* C26: in a run of procesarPago the request to /api/extract is issued only
\* after /api/upload answered OK and the request to /api/validate only
\* after /api/extract answered OK; the state COMPLETADO holds a stored
\* result only when the three steps answered OK; an answer that fails moves
\* the state to ERROR with no result stored and with no further request,
\* and in the state ERROR nothing is requested until a new run starts.
C26_PipelineEnOrden ==
    /\ [](/\ Emitida("extract") => RespondioOk("upload")
          /\ Emitida("validate") => RespondioOk("extract")
          /\ (Pagina.estado = "COMPLETADO" /\ Pagina.resultado.t = "object")
                => /\ RespondioOk("upload")
                   /\ RespondioOk("extract")
                   /\ RespondioOk("validate")
          /\ Pagina.estado = "ERROR"
                => Pagina.resultado = Null /\ Pagina.pc = "ocioso")
    /\ [][/\ FallaUnPaso
              => /\ Pagina'.estado = "ERROR"
                 /\ Pagina'.resultado = Null
                 /\ Pagina'.peticiones = Pagina.peticiones
                 /\ Pagina'.pc = "ocioso"
          /\ (Pagina.estado = "ERROR"
                /\ Pagina'.peticiones # Pagina.peticiones)
              => /\ Pagina'.corridas = Pagina.corridas + 1
                 /\ Pagina'.peticiones = <<"upload">>]_vars

\* the second run of a page ends in ERROR at an /api/extract answer that
\* is not OK, after /api/upload answered OK
C26_Witness ==
    /\ tablero # <<>>
    /\ Pagina.estado = "ERROR"
    /\ Pagina.corridas = 2
    /\ Pagina.peticiones = <<"upload", "extract">>
    /\ Pagina.respuestas = <<[de |-> "upload", ok |-> TRUE],
                             [de |-> "extract", ok |-> FALSE]>>

\* C27: in every result, when any of the five boolean checks is false the
\* discrepancy list is not empty; and a result whose estado is APROBADO has
\* its five boolean checks true.
C27_CheckFalsoConDiscrepancia ==
    Retorno =>
        /\ (\E i \in 1..5 : CincoChecks(R.checks)[i] = FALSE)
              => Len(R.discrepancias) > 0
        /\ (R.estado = "APROBADO")
              => CincoChecks(R.checks) = <<TRUE, TRUE, TRUE, TRUE, TRUE>>

\* an invalid receipt total is the only defect of the input: montosCoinciden
\* alone is false and the list holds the message of that total alone
C27_Witness ==
    /\ Retorno
    /\ CincoChecks(R.checks) = <<TRUE, FALSE, TRUE, TRUE, TRUE>>
    /\ R.discrepancias = <<MsgMontoRecepcionInvalido>>
    /\ R.estado = "REPARO"

\* C28: when the three identifiers are present, the identity rule emits 0, 2
\* or 3 pairwise mismatch messages, never exactly 1: when two of the three
\* pairs match the third pair matches too.
C28_NuncaUnSoloPar ==
    (Retorno /\ RutsPresentes) =>
        /\ Len(DeIdentidad(R.discrepancias)) \in {0, 2, 3}
        /\ ((RutF = RutO /\ RutF = RutA) => RutO = RutA)
        /\ ((RutF = RutO /\ RutO = RutA) => RutF = RutA)
        /\ ((RutF = RutA /\ RutO = RutA) => RutF = RutO)

\* the invoice and the order carry one identifier and the receipt another:
\* two pairwise messages, for the pairs that hold the receipt
C28_Witness ==
    /\ Retorno
    /\ RutsPresentes
    /\ RutF = RutO
    /\ RutF # RutA
    /\ Len(DeIdentidad(R.discrepancias)) = 2
    /\ Veces(R.discrepancias, MsgRutFacturaActa(datos.factura.rutProveedor,
                                                 datos.actaRecepcion.rutProveedor)) = 1
    /\ Veces(R.discrepancias, MsgRutOCActa(datos.ordenCompra.rutProveedor,
                                            datos.actaRecepcion.rutProveedor)) = 1

G == generacion[1]

\* the answer is a document that approves the payment: the approval wording
\* in the subject line or in the fourth recital, or the clause that
\* authorizes the payment
RindeAprobacion ==
    /\ G.pc = "fin"
    /\ G.respuesta[1].status = 200
    /\ \/ G.respuesta[1].data[1].materia = "Aprueba"
       \/ G.respuesta[1].data[1].considerando4.resultado = "APROBADA"
       \/ \E i \in DOMAIN G.respuesta[1].data[1].resuelvo :
             G.respuesta[1].data[1].resuelvo[i].titulo = "AUTORIZASE"

\* C29: a document of /api/generate approves the payment only when the
\* discrepancy list of the request body is empty; a body whose estado is
\* APROBADO and whose list is not empty is not rendered as an approval.
C29_ApruebaSoloSinDiscrepancias ==
    RindeAprobacion => G.body[1].campos.validacion.campos.discrepancias.items = <<>>

\* a body with the estado APROBADO and a list that is not empty is answered
\* with a document that authorizes the payment
C29_Witness ==
    /\ generacion # <<>>
    /\ RindeAprobacion
    /\ G.body[1].campos.validacion.campos.estado = Texto("APROBADO")
    /\ Len(G.body[1].campos.validacion.campos.discrepancias.items) > 0
    /\ G.respuesta[1].data[1].resuelvo[1].titulo = "AUTORIZASE"
====
